---------------------------- MODULE Spec2Model ----------------------------
(***************************************************************************)
(* Model of the test-session subsystem of the YugaYatra backend: the      *)
(* routes of routes/tests (src/unnamed/part_003), the User and Test       *)
(* models (src/unnamed/part_004), the test-token middleware               *)
(* (src/middleware/auth.js) and the proctoring service                    *)
(* (src/utils/proctoringService.js).                                      *)
(*                                                                         *)
(* Time is the value of new Date() in milliseconds.  Fields of the Test   *)
(* document that no guard and no computation of the modelled code reads   *)
(* (question text, timeSpent, answeredAt, analytics, browser info, the    *)
(* log proctoring.suspiciousActivities) are left out.                     *)
(***************************************************************************)
EXTENDS Integers, Sequences, FiniteSets, TLC

VARIABLES
    now,                 \* the wall clock, new Date(), in ms
    users,               \* User collection: user id -> testInfo
    tests,               \* Test collection: sequence of Test documents
    resp,                \* the HTTP response of the last request
    activeTestSessions,  \* ProctoringService.activeTestSessions
    lastViolation,       \* what the last recordViolation call returned
    bank,                \* Question collection: the set of Question documents
    picked,              \* the last direct call of Question.getRandomQuestions: criteria, result
    inflight             \* the requests being handled: what each has loaded so far

vars == <<now, users, tests, resp, activeTestSessions, lastViolation, bank, picked, inflight>>

---------------------------------------------------------------------------
(* Bounds of the model *)

\* The clock stops advancing after this many ticks.
MaxTicks == 4
\* A proctoring session of the service logs at most this many violations.
MaxViolations == 3
\* Sizes of the inputs of the scoring engine checked on its own.
MaxScoreSlots == 3

---------------------------------------------------------------------------
(* Configuration and program constants *)

\* parseInt(process.env.MAX_ATTEMPTS) || 5
maxAttempts == 2
\* parseInt(process.env.QUESTIONS_PER_TEST) || 30
totalQuestions == 2
\* parseInt(process.env.TEST_DURATION_MINUTES) || 30
durationMinutes == 720
\* parseInt(process.env.PASSING_PERCENTAGE) || 65
passingPercentage == 65
\* parseInt(process.env.VIOLATION_THRESHOLD) || 3
violationThreshold == 3
\* canAttemptTest: hoursDiff < 24
CooldownHours == 24
\* POST /proctoring: totalViolations >= 5
warningThreshold == 5

MsPerSecond == 1000
MsPerMinute == 1000 * 60
MsPerHour == 1000 * 60 * 60
\* One step of the clock: half the cooldown, which is also the test duration.
TickMs == (CooldownHours * MsPerHour) \div 2

NoDate == -1          \* an unset Date field
NoTest == 0           \* findOne found nothing

---------------------------------------------------------------------------
(* Arithmetic of the JavaScript runtime *)

\* Math.round(n / d * 100) for d > 0: Math.round is floor(x + 0.5)
RoundPct(n, d) == (200 * n + d) \div (2 * d)

\* Math.round(n / d) for d > 0
RoundDiv(n, d) == (2 * n + d) \div (2 * d)

\* Math.ceil(a - n / d) for d > 0
CeilSub(a, n, d) == a - (n \div d)

Max(a, b) == IF a >= b THEN a ELSE b

RECURSIVE SeqSum(_)
SeqSum(s) == IF s = <<>> THEN 0 ELSE Head(s) + SeqSum(Tail(s))

\* [...new Set(s)]: the distinct values of s in order of first occurrence
Distinct(s) ==
    LET first == SelectSeq([i \in 1..Len(s) |-> i],
                           LAMBDA i : \A j \in 1..(i - 1) : s[j] # s[i])
    IN  [k \in 1..Len(first) |-> s[first[k]]]

\* String.prototype.toLowerCase().trim() on the strings the model uses
LowerTrim(s) ==
    CASE s = "A"  -> "a"
      [] s = "B"  -> "b"
      [] s = " b" -> "b"
      [] OTHER    -> s

---------------------------------------------------------------------------
(* The question repository (approved, active questions) *)

Question(id, type, cat, diff, pts, neg, opts, correct) ==
    [questionId |-> id, questionType |-> type, category |-> cat,
     difficulty |-> diff, points |-> pts, negativePoints |-> neg,
     options |-> opts, correctAnswer |-> correct,
     status |-> "Active", isApproved |-> TRUE]

Opt(t, c) == [text |-> t, isCorrect |-> c]

Pool ==
    { Question(1, "Multiple Choice", "Aptitude", "Easy", 2, 1,
               <<Opt("A", TRUE), Opt("B", FALSE)>>, "A"),
      Question(2, "Fill in the Blank", "Reasoning", "Hard", 4, 5,
               <<>>, "B") }

\* The answers a client sends
Answers == {"A", " b"}


---------------------------------------------------------------------------
(* The Test document (testSchema) *)

\* isCorrect is a nullable Boolean: "null", "true" or "false"
Bool3(b) == IF b THEN "true" ELSE "false"
Truthy(x) == x = "true"

\* score: the schema's defaults
DefaultScore ==
    [totalQuestions |-> 0, attemptedQuestions |-> 0, correctAnswers |-> 0,
     wrongAnswers |-> 0, unansweredQuestions |-> 0, totalPoints |-> 0,
     pointsEarned |-> 0, negativePoints |-> 0, netScore |-> 0,
     percentage |-> 0, grade |-> "F",
     categoryWiseScore |-> <<>>, difficultyWiseScore |-> <<>>]

\* POST /start: one entry of testQuestions
NewSlot(question, index) ==
    [questionId |-> question.questionId,
     questionNumber |-> index,
     questionType |-> question.questionType,
     category |-> question.category,
     difficulty |-> question.difficulty,
     points |-> question.points,
     negativePoints |-> question.negativePoints,
     options |-> question.options,
     correctAnswer |-> question.correctAnswer,
     userResponse |-> [selectedOption |-> "", selectedAnswer |-> "",
                       isAnswered |-> FALSE, flaggedForReview |-> FALSE],
     isCorrect |-> "null",
     pointsEarned |-> 0]

\* POST /start: testConfig
TestConfig ==
    [totalQuestions |-> totalQuestions,
     durationMinutes |-> durationMinutes,
     passingPercentage |-> passingPercentage,
     negativeMarking |-> TRUE]

\* POST /start: new Test({...})
NewTest(user, testConfig, questions, attempts, date) ==
    [user |-> user,
     testConfig |-> testConfig,
     questions |-> [i \in 1..Len(questions) |-> NewSlot(questions[i], i)],
     startTime |-> date,
     endTime |-> NoDate,
     submittedAt |-> NoDate,
     actualDurationMinutes |-> 0,
     status |-> "Scheduled",
     score |-> DefaultScore,
     isPassed |-> FALSE,
     attemptNumber |-> attempts + 1,
     proctoring |-> [fullScreenViolations |-> 0, tabSwitchViolations |-> 0]]

\* testSchema.pre('save')
PreSave(test) ==
    IF test.status = "Completed" /\ test.startTime # NoDate /\ test.endTime # NoDate
    THEN [test EXCEPT !.actualDurationMinutes =
                          RoundDiv(test.endTime - test.startTime, MsPerMinute)]
    ELSE test

\* this.questions.find(q => q.questionNumber === questionNumber)
HasQuestion(test, questionNumber) ==
    \E i \in 1..Len(test.questions) :
        test.questions[i].questionNumber = questionNumber

FindQuestion(test, questionNumber) ==
    CHOOSE i \in 1..Len(test.questions) :
        /\ test.questions[i].questionNumber = questionNumber
        /\ \A j \in 1..(i - 1) : test.questions[j].questionNumber # questionNumber

\* testSchema.methods.startTest, up to the save
startTest(test, date) ==
    [test EXCEPT !.status = "In Progress", !.startTime = date]

\* submitAnswer: question.isCorrect
AnswerIsCorrect(question, answer) ==
    IF question.questionType = "Multiple Choice"
    THEN \E i \in 1..Len(question.options) :
            /\ question.options[i].isCorrect
            /\ \A j \in 1..(i - 1) : ~question.options[j].isCorrect
            /\ question.options[i].text = answer
    ELSE LowerTrim(question.correctAnswer) = LowerTrim(answer)

\* submitAnswer: question.pointsEarned
AnswerPoints(question, isCorrect, negativeMarking) ==
    IF isCorrect THEN question.points
    ELSE IF negativeMarking /\ question.userResponse.isAnswered
         THEN -question.negativePoints
         ELSE 0

\* a variant of submitAnswer that keeps the outcome of the first answer
submitAnswer_FirstOutcome(test, questionNumber, answer) ==
    LET i == FindQuestion(test, questionNumber)
        q0 == test.questions[i]
        q1 == [q0 EXCEPT !.userResponse.selectedAnswer = answer,
                         !.userResponse.isAnswered = TRUE,
                         !.userResponse.selectedOption =
                             IF q0.questionType = "Multiple Choice" THEN answer ELSE @]
        ok == AnswerIsCorrect(q1, answer)
    IN  IF q0.userResponse.isAnswered
        THEN [test EXCEPT !.questions[i] = q1]
        ELSE [test EXCEPT !.questions[i] =
                 [q1 EXCEPT !.isCorrect = Bool3(ok),
                            !.pointsEarned =
                                AnswerPoints(q1, ok, test.testConfig.negativeMarking)]]

\* testSchema.methods.submitAnswer on a question that exists, up to the save
submitAnswer(test, questionNumber, answer) ==
    LET i == FindQuestion(test, questionNumber)
        q0 == test.questions[i]
        q1 == [q0 EXCEPT !.userResponse.selectedAnswer = answer,
                         !.userResponse.isAnswered = TRUE,
                         !.userResponse.selectedOption =
                             IF q0.questionType = "Multiple Choice" THEN answer ELSE @]
        ok == AnswerIsCorrect(q1, answer)
        q2 == [q1 EXCEPT !.isCorrect = Bool3(ok),
                         !.pointsEarned =
                             AnswerPoints(q1, ok, test.testConfig.negativeMarking)]
    IN  [test EXCEPT !.questions[i] = q2]

---------------------------------------------------------------------------
(* The scoring engine: testSchema.methods.calculateScore *)

\* a variant of the tally that charges a wrong answer whatever negativeMarking says
ScoreStep_AlwaysCharged(score, question, negativeMarking) ==
    LET s1 == [score EXCEPT !.totalPoints = @ + question.points]
    IN  IF question.userResponse.isAnswered
        THEN IF Truthy(question.isCorrect)
             THEN [s1 EXCEPT !.attemptedQuestions = @ + 1,
                             !.correctAnswers = @ + 1,
                             !.pointsEarned = @ + question.points]
             ELSE [s1 EXCEPT !.attemptedQuestions = @ + 1,
                             !.wrongAnswers = @ + 1,
                             !.negativePoints = @ + question.negativePoints]
        ELSE [s1 EXCEPT !.unansweredQuestions = @ + 1]

\* the body of this.questions.forEach: one question added to the tally
ScoreStep(score, question, negativeMarking) ==
    LET s1 == [score EXCEPT !.totalPoints = @ + question.points]
    IN  IF question.userResponse.isAnswered
        THEN LET s2 == [s1 EXCEPT !.attemptedQuestions = @ + 1]
             IN  IF Truthy(question.isCorrect)
                 THEN [s2 EXCEPT !.correctAnswers = @ + 1,
                                 !.pointsEarned = @ + question.points]
                 ELSE LET s3 == [s2 EXCEPT !.wrongAnswers = @ + 1]
                      IN  IF negativeMarking
                          THEN [s3 EXCEPT !.negativePoints = @ + question.negativePoints]
                          ELSE s3
        ELSE [s1 EXCEPT !.unansweredQuestions = @ + 1]

RECURSIVE Tally(_, _, _)
Tally(score, questions, negativeMarking) ==
    IF questions = <<>> THEN score
    ELSE Tally(ScoreStep(score, Head(questions), negativeMarking),
               Tail(questions), negativeMarking)

\* a variant of the grade ladder with exclusive lower bounds
Grade_Exclusive(percentage) ==
    IF percentage > 90 THEN "A+"
    ELSE IF percentage > 80 THEN "A"
    ELSE IF percentage > 70 THEN "B+"
    ELSE IF percentage > 60 THEN "B"
    ELSE IF percentage > 50 THEN "C+"
    ELSE IF percentage > 40 THEN "C"
    ELSE IF percentage > 30 THEN "D"
    ELSE "F"

\* the grade ladder
Grade(percentage) ==
    IF percentage >= 90 THEN "A+"
    ELSE IF percentage >= 80 THEN "A"
    ELSE IF percentage >= 70 THEN "B+"
    ELSE IF percentage >= 60 THEN "B"
    ELSE IF percentage >= 50 THEN "C+"
    ELSE IF percentage >= 40 THEN "C"
    ELSE IF percentage >= 30 THEN "D"
    ELSE "F"

\* the reduce of a breakdown: one question's net points
GroupPoints(q) ==
    IF Truthy(q.isCorrect) THEN q.points
    ELSE IF q.userResponse.isAnswered THEN -q.negativePoints ELSE 0

\* one entry of a breakdown, for the questions of one group
GroupScore(group) ==
    LET correct == Len(SelectSeq(group, LAMBDA q : Truthy(q.isCorrect)))
    IN  [totalQuestions |-> Len(group),
         correctAnswers |-> correct,
         percentage |-> RoundPct(correct, Len(group)),
         points |-> SeqSum([i \in 1..Len(group) |-> GroupPoints(group[i])])]

CategoryWiseScore(questions) ==
    LET categories == Distinct([i \in 1..Len(questions) |-> questions[i].category])
    IN  [k \in 1..Len(categories) |->
            [category |-> categories[k]] @@
            GroupScore(SelectSeq(questions, LAMBDA q : q.category = categories[k]))]

DifficultyWiseScore(questions) ==
    LET difficulties == Distinct([i \in 1..Len(questions) |-> questions[i].difficulty])
    IN  [k \in 1..Len(difficulties) |->
            [difficulty |-> difficulties[k]] @@
            GroupScore(SelectSeq(questions, LAMBDA q : q.difficulty = difficulties[k]))]

\* a variant that goes on counting from the score block the document holds
FreshScore_Carried(test) ==
    [test.score EXCEPT !.totalQuestions = Len(test.questions)]

\* the fresh score object the method starts from (grade is not set yet: "")
FreshScore(test) ==
    [totalQuestions |-> Len(test.questions), attemptedQuestions |-> 0,
     correctAnswers |-> 0, wrongAnswers |-> 0, unansweredQuestions |-> 0,
     totalPoints |-> 0, pointsEarned |-> 0, negativePoints |-> 0,
     netScore |-> 0, percentage |-> 0, grade |-> "",
     categoryWiseScore |-> <<>>, difficultyWiseScore |-> <<>>]

\* a variant of the net score that adds the negative points
NetScore_Added(score) == score.pointsEarned + score.negativePoints

\* score.netScore
NetScore(score) == score.pointsEarned - score.negativePoints

\* score.percentage (totalPoints > 0: a test has questions of >= 1 point)
Percentage(score) == RoundPct(score.netScore, score.totalPoints)

\* this.isPassed
IsPassed(percentage, passing) == percentage >= passing

\* the score block calculateScore builds
ScoreOf(test) ==
    LET s1 == Tally(FreshScore(test), test.questions, test.testConfig.negativeMarking)
        s2 == [s1 EXCEPT !.netScore = NetScore(s1)]
        s3 == [s2 EXCEPT !.percentage = Percentage(s2)]
    IN  [s3 EXCEPT !.grade = Grade(s3.percentage),
                   !.categoryWiseScore = CategoryWiseScore(test.questions),
                   !.difficultyWiseScore = DifficultyWiseScore(test.questions)]

\* testSchema.methods.calculateScore: the document after the call
calculateScore(test) ==
    LET score == ScoreOf(test)
    IN  [test EXCEPT !.score = score,
                     !.isPassed = IsPassed(score.percentage,
                                           test.testConfig.passingPercentage)]

\* a variant of completeTest that saves the intermediate status
completeTest_Completed(test, date) ==
    [test EXCEPT !.endTime = date, !.submittedAt = date, !.status = "Completed"]

\* a variant of completeTest that leaves the scoring out
completeTest_Unscored(test, date) ==
    [test EXCEPT !.endTime = date, !.submittedAt = date, !.status = "Evaluated"]

\* testSchema.methods.completeTest on a test In Progress, with the save
completeTest(test, date) ==
    LET t1 == [test EXCEPT !.endTime = date, !.submittedAt = date,
                           !.status = "Completed"]
        t2 == calculateScore(t1)
        t3 == [t2 EXCEPT !.status = "Evaluated"]
    IN  PreSave(t3)

---------------------------------------------------------------------------
(* The User document: testInfo, and the eligibility gate *)

\* testInfo: the schema's defaults
DefaultTestInfo ==
    [totalAttempts |-> 0, lastAttemptDate |-> NoDate, bestScore |-> 0,
     hasQualified |-> FALSE, qualificationDate |-> NoDate,
     blockedUntil |-> NoDate]

CanAttempt == [canAttempt |-> TRUE, reason |-> "", hours |-> 0]
Refuse(reason, hours) == [canAttempt |-> FALSE, reason |-> reason, hours |-> hours]

\* canAttemptTest: the four checks
IsBlocked(testInfo, date) ==
    testInfo.blockedUntil # NoDate /\ date < testInfo.blockedUntil

HasQualified(testInfo) == testInfo.hasQualified

\* a variant of the attempt check with a strict comparison
AttemptsExhausted_Strict(testInfo) == testInfo.totalAttempts > maxAttempts

AttemptsExhausted(testInfo) == testInfo.totalAttempts >= maxAttempts

InCooldown(testInfo, date) ==
    /\ testInfo.lastAttemptDate # NoDate
    /\ date - testInfo.lastAttemptDate < CooldownHours * MsPerHour

\* Math.ceil(24 - hoursDiff)
WaitHours(testInfo, date) ==
    CeilSub(CooldownHours, date - testInfo.lastAttemptDate, MsPerHour)

\* a variant of canAttemptTest that looks at the attempt count before the qualification
canAttemptTest_AttemptsFirst(testInfo, date) ==
    IF IsBlocked(testInfo, date) THEN Refuse("Account is temporarily blocked", 0)
    ELSE IF AttemptsExhausted(testInfo) THEN Refuse("Maximum attempts reached", 0)
    ELSE IF HasQualified(testInfo) THEN Refuse("Already qualified", 0)
    ELSE IF InCooldown(testInfo, date)
         THEN Refuse("Please wait", WaitHours(testInfo, date))
    ELSE CanAttempt

\* userSchema.methods.canAttemptTest
canAttemptTest(testInfo, date) ==
    IF IsBlocked(testInfo, date) THEN Refuse("Account is temporarily blocked", 0)
    ELSE IF HasQualified(testInfo) THEN Refuse("Already qualified", 0)
    ELSE IF AttemptsExhausted(testInfo) THEN Refuse("Maximum attempts reached", 0)
    ELSE IF InCooldown(testInfo, date)
         THEN Refuse("Please wait", WaitHours(testInfo, date))
    ELSE CanAttempt

---------------------------------------------------------------------------
(* Question.getRandomQuestions *)

\* the percentage distribution POST /start asks for
DifficultyDistribution ==
    <<[difficulty |-> "Easy", percentage |-> 30],
      [difficulty |-> "Moderate", percentage |-> 30],
      [difficulty |-> "Hard", percentage |-> 40]>>

\* a variant that rounds the share down
QuestionsNeeded_Floor(count, percentage) == (count * percentage) \div 100

\* Math.round((count * percentage) / 100)
QuestionsNeeded(count, percentage) == RoundDiv(count * percentage, 100)

Min(a, b) == IF a <= b THEN a ELSE b

\* { $sample: { size } } on a set of documents: the samples it can return
Sample(docs, size) ==
    {S \in SUBSET docs : Cardinality(S) = Min(size, Cardinality(docs))}

\* the orders a set of documents can be put in
Orders(docs) ==
    {s \in [1..Cardinality(docs) -> docs] :
        \A i, j \in 1..Cardinality(docs) : i # j => s[i] # s[j]}

\* a variant of the $match that leaves the status out
Eligible_AnyStatus(pool, excludeIds) ==
    {q \in pool : q.isApproved /\ q.questionId \notin excludeIds}

\* the $match every pipeline starts with: active, approved, not excluded
Eligible(pool, excludeIds) ==
    {q \in pool : q.status = "Active" /\ q.isApproved /\ q.questionId \notin excludeIds}

\* the documents gathered before the shuffle: the sample of each difficulty, then,
\* if they are fewer than count, a sample of the eligible documents not yet used
Gathered(pool, criteria) ==
    LET eligible == Eligible(pool, criteria.excludeIds)
        Of(d) == {q \in eligible : q.difficulty = criteria.difficulty[d].difficulty}
        Need(d) == QuestionsNeeded(criteria.count, criteria.difficulty[d].percentage)
        drawn == {e \cup m \cup h :
                      e \in Sample(Of(1), Need(1)),
                      m \in Sample(Of(2), Need(2)),
                      h \in Sample(Of(3), Need(3))}
    IN  UNION {IF Cardinality(d) < criteria.count
               THEN {d \cup r : r \in Sample(eligible \ d, criteria.count - Cardinality(d))}
               ELSE {d} : d \in drawn}

\* questions.sort(() => Math.random() - 0.5).slice(0, count): the documents kept
Sliced(docs, count) ==
    {kept \in SUBSET docs : Cardinality(kept) = Min(count, Cardinality(docs))}

\* the sequences getRandomQuestions(criteria) can return
getRandomQuestions(pool, criteria) ==
    UNION {Orders(kept) :
              kept \in UNION {Sliced(docs, criteria.count) : docs \in Gathered(pool, criteria)}}

\* POST /start: the criteria of its call
StartCriteria(count) ==
    [count |-> count, difficulty |-> DifficultyDistribution, excludeIds |-> {}]

---------------------------------------------------------------------------
(* Requests and responses *)

\* the route that answered, the HTTP status and the error (or message) of the body
Response(op, code, error) == [op |-> op, code |-> code, error |-> error]

\* a variant of the lookup that leaves the user out
FindTest_AnyOwner(testId, user) ==
    IF testId \in 1..Len(tests) THEN testId ELSE NoTest

\* Test.findOne({ testId, user })
FindTest(testId, user) ==
    IF testId \in 1..Len(tests) /\ tests[testId].user = user THEN testId ELSE NoTest

\* Test.findOne({ user, status: { $in: ['Scheduled', 'In Progress'] } })
ActiveTest(user) ==
    LET active == {t \in 1..Len(tests) :
                      /\ tests[t].user = user
                      /\ tests[t].status \in {"Scheduled", "In Progress"}}
    IN  IF active = {} THEN NoTest ELSE CHOOSE t \in active : \A o \in active : t <= o

\* variants of the state guards: any session not yet over, any session once begun
IsScheduled_NotOver(test) == test.status # "Evaluated"
IsInProgress_Begun(test) == test.status # "Scheduled"

IsScheduled(test) == test.status = "Scheduled"
IsInProgress(test) == test.status = "In Progress"

\* timeElapsed > timeLimit, with timeElapsed = (new Date() - startTime) / 1000
TimeLimit(test) == test.testConfig.durationMinutes * 60
\* a variant of the expiry test that reads the limit as minutes
TimeExpired_InMinutes(test, date) ==
    (date - test.startTime) \div MsPerSecond > TimeLimit(test) * 60
TimeExpired(test, date) == date - test.startTime > TimeLimit(test) * MsPerSecond

\* GET /status: test.timeRemaining <= 0, with Math.max(0, timeLimit - timeElapsed)
NoTimeRemaining(test, date) ==
    Max(0, TimeLimit(test) * MsPerSecond - (date - test.startTime)) <= 0

\* middleware authenticateTest: the response when the request stops there
authenticateTest(user) == canAttemptTest(users[user], now)

Refused(op, check) == Response(op, 403, check.reason)

---------------------------------------------------------------------------
(* The state after construction *)

Users == {"u1"}

NoResponse == Response("none", 0, "")
NoViolation == [success |-> FALSE, shouldTerminate |-> FALSE]
NoSelection == [criteria |-> [count |-> 0, difficulty |-> <<>>, excludeIds |-> {}],
                result |-> <<>>]

Init ==
    /\ bank = Pool
    /\ picked = NoSelection
    /\ inflight = <<>>
    /\ now = 0
    /\ users = [u \in Users |-> DefaultTestInfo]
    /\ tests = <<>>
    /\ resp = NoResponse
    /\ activeTestSessions = <<>>
    /\ lastViolation = NoViolation

proctoringVars == <<activeTestSessions, lastViolation>>
selectionVars == <<bank, picked>>

\* time passes
Tick ==
    /\ now < MaxTicks * TickMs
    /\ now' = now + TickMs
    /\ UNCHANGED <<users, tests, resp, proctoringVars, selectionVars, inflight>>

---------------------------------------------------------------------------
(* The routes of /api/tests *)

\* POST /start
Start(u) ==
    LET user == users[u]
        check == canAttemptTest(user, now)
        activeTest == ActiveTest(u)
    IN  /\ UNCHANGED <<now, proctoringVars, selectionVars, inflight>>
        /\ IF ~check.canAttempt
           THEN /\ resp' = Refused("start", check)
                /\ UNCHANGED <<users, tests>>
           ELSE IF activeTest # NoTest
           THEN /\ resp' = Response("start", 400,
                    "You have an active test session. Please complete it first.")
                /\ UNCHANGED <<users, tests>>
           ELSE \E questions \in getRandomQuestions(bank, StartCriteria(TestConfig.totalQuestions)) :
                    IF Len(questions) < TestConfig.totalQuestions
                    THEN /\ resp' = Response("start", 500,
                             "Insufficient questions available. Please contact support.")
                         /\ UNCHANGED <<users, tests>>
                    ELSE /\ tests' = Append(tests,
                                PreSave(NewTest(u, TestConfig, questions,
                                                user.totalAttempts, now)))
                         /\ users' = [users EXCEPT
                                ![u].totalAttempts = @ + 1,
                                ![u].lastAttemptDate = now]
                         /\ resp' = Response("start", 201, "")

\* POST /begin/:testId
Begin(u, testId) ==
    LET check == authenticateTest(u)
        t == FindTest(testId, u)
    IN  /\ UNCHANGED <<now, users, proctoringVars, selectionVars, inflight>>
        /\ IF ~check.canAttempt
           THEN resp' = Refused("begin", check) /\ UNCHANGED tests
           ELSE IF t = NoTest
           THEN resp' = Response("begin", 404, "Test not found")
                /\ UNCHANGED tests
           ELSE IF ~IsScheduled(tests[t])
           THEN resp' = Response("begin", 400, "Test cannot be started in current state")
                /\ UNCHANGED tests
           ELSE /\ tests' = [tests EXCEPT ![t] = PreSave(startTest(@, now))]
                /\ resp' = Response("begin", 200, "")

\* PUT /answer/:testId
Answer(u, testId, questionNumber, answer) ==
    LET check == authenticateTest(u)
        t == FindTest(testId, u)
    IN  /\ UNCHANGED <<now, users, proctoringVars, selectionVars, inflight>>
        /\ IF ~check.canAttempt
           THEN resp' = Refused("answer", check) /\ UNCHANGED tests
           ELSE IF t = NoTest
           THEN resp' = Response("answer", 404, "Test not found")
                /\ UNCHANGED tests
           ELSE IF ~IsInProgress(tests[t])
           THEN resp' = Response("answer", 400, "Test is not in progress")
                /\ UNCHANGED tests
           ELSE IF TimeExpired(tests[t], now)
           THEN /\ tests' = [tests EXCEPT ![t] = completeTest(@, now)]
                /\ resp' = Response("answer", 400, "Test time has expired")
           ELSE IF ~HasQuestion(tests[t], questionNumber)
           THEN resp' = Response("answer", 500, "Failed to submit answer")
                /\ UNCHANGED tests
           ELSE /\ tests' = [tests EXCEPT
                       ![t] = PreSave(PreSave(submitAnswer(@, questionNumber, answer)))]
                /\ resp' = Response("answer", 200, "")

\* PUT /flag/:testId
Flag(u, testId, questionNumber, flagged) ==
    LET check == authenticateTest(u)
        t == FindTest(testId, u)
    IN  /\ UNCHANGED <<now, users, proctoringVars, selectionVars, inflight>>
        /\ IF ~check.canAttempt
           THEN resp' = Refused("flag", check) /\ UNCHANGED tests
           ELSE IF t = NoTest \/ ~IsInProgress(tests[t])
           THEN resp' = Response("flag", 400, "Invalid test session")
                /\ UNCHANGED tests
           ELSE IF ~HasQuestion(tests[t], questionNumber)
           THEN resp' = Response("flag", 404, "Question not found")
                /\ UNCHANGED tests
           ELSE /\ tests' = [tests EXCEPT
                       ![t] = PreSave([@ EXCEPT
                           !.questions[FindQuestion(tests[t], questionNumber)]
                               .userResponse.flaggedForReview = flagged])]
                /\ resp' = Response("flag", 200, "")

\* POST /submit/:testId: the write-back to the user's testInfo
RecordResult(testInfo, test, date) ==
    LET best == IF test.score.percentage > testInfo.bestScore
                THEN [testInfo EXCEPT !.bestScore = test.score.percentage]
                ELSE testInfo
    IN  IF test.isPassed
        THEN [best EXCEPT !.hasQualified = TRUE, !.qualificationDate = date]
        ELSE best

\* POST /submit/:testId
Submit(u, testId) ==
    LET check == authenticateTest(u)
        t == FindTest(testId, u)
    IN  /\ UNCHANGED <<now, proctoringVars, selectionVars, inflight>>
        /\ IF ~check.canAttempt
           THEN resp' = Refused("submit", check) /\ UNCHANGED <<users, tests>>
           ELSE IF t = NoTest
           THEN resp' = Response("submit", 404, "Test not found")
                /\ UNCHANGED <<users, tests>>
           ELSE IF ~IsInProgress(tests[t])
           THEN resp' = Response("submit", 400, "Test is not in progress")
                /\ UNCHANGED <<users, tests>>
           ELSE /\ tests' = [tests EXCEPT ![t] = completeTest(@, now)]
                /\ users' = [users EXCEPT ![u] = RecordResult(@, tests'[t], now)]
                /\ resp' = Response("submit", 200, "")

\* GET /status/:testId
Status(u, testId) ==
    LET check == authenticateTest(u)
        t == FindTest(testId, u)
    IN  /\ UNCHANGED <<now, users, proctoringVars, selectionVars, inflight>>
        /\ IF ~check.canAttempt
           THEN resp' = Refused("status", check) /\ UNCHANGED tests
           ELSE IF t = NoTest
           THEN resp' = Response("status", 404, "Test not found")
                /\ UNCHANGED tests
           ELSE /\ tests' = IF IsInProgress(tests[t]) /\ NoTimeRemaining(tests[t], now)
                            THEN [tests EXCEPT ![t] = completeTest(@, now)]
                            ELSE tests
                /\ resp' = Response("status", 200, "")

\* the violation types the client reports, among those the route's validator
\* lets through ('tab_switch', 'full_screen_exit', 'suspicious_activity')
ViolationTypes == {"tab_switch", "suspicious_activity"}

\* POST /proctoring/:testId: the violation recorded on the document
RecordOnTest(test, violationType) ==
    [test EXCEPT
        !.proctoring.tabSwitchViolations =
            IF violationType = "tab_switch" THEN @ + 1 ELSE @,
        !.proctoring.fullScreenViolations =
            IF violationType = "full_screen_exit" THEN @ + 1 ELSE @]

TotalViolations(test) ==
    test.proctoring.tabSwitchViolations + test.proctoring.fullScreenViolations

ExceedsThreshold(test) == TotalViolations(test) >= warningThreshold

\* POST /proctoring/:testId
Proctoring(u, testId, violationType) ==
    LET check == authenticateTest(u)
        t == FindTest(testId, u)
    IN  /\ UNCHANGED <<now, users, proctoringVars, selectionVars, inflight>>
        /\ IF ~check.canAttempt
           THEN resp' = Refused("proctoring", check) /\ UNCHANGED tests
           ELSE IF t = NoTest \/ ~IsInProgress(tests[t])
           THEN resp' = Response("proctoring", 400, "Invalid test session")
                /\ UNCHANGED tests
           ELSE LET saved == PreSave(RecordOnTest(tests[t], violationType))
                IN  IF ExceedsThreshold(saved)
                    THEN /\ tests' = [tests EXCEPT ![t] = completeTest(saved, now)]
                         /\ resp' = Response("proctoring", 200,
                                "Test auto-submitted due to excessive violations")
                    ELSE /\ tests' = [tests EXCEPT ![t] = saved]
                         /\ resp' = Response("proctoring", 200, "Violation recorded")

---------------------------------------------------------------------------
(* The session subsystem: every request of every token holder *)

\* the ids a request names: the stored tests
TestIds == 1..Len(tests)
QuestionNumbers == 1..totalQuestions

Next ==
    \/ Tick
    \/ \E u \in DOMAIN users : Start(u)
    \/ \E u \in DOMAIN users, testId \in TestIds : Begin(u, testId)
    \/ \E u \in DOMAIN users, testId \in TestIds, n \in QuestionNumbers, a \in Answers :
           Answer(u, testId, n, a)
    \/ \E u \in DOMAIN users, testId \in TestIds, n \in QuestionNumbers, f \in BOOLEAN :
           Flag(u, testId, n, f)
    \/ \E u \in DOMAIN users, testId \in TestIds : Submit(u, testId)
    \/ \E u \in DOMAIN users, testId \in TestIds : Status(u, testId)
    \/ \E u \in DOMAIN users, testId \in TestIds, v \in ViolationTypes :
           Proctoring(u, testId, v)

Spec == Init /\ [][Next]_vars

---------------------------------------------------------------------------
(* The scoring engine on its own: calculateScore applied to documents whose *)
(* slots hold every combination of unanswered, right and wrong answers      *)

ScorePool ==
    Pool \cup { Question(3, "Multiple Choice", "Aptitude", "Moderate", 3, 1,
                         <<Opt("A", FALSE), Opt("B", TRUE)>>, ""),
                Question(4, "True/False", "Technical", "Easy", 1, 0, <<>>, "B") }

ScoreAnswers == Answers \cup {"B"}
NoAnswer == "none"

\* the scenario of 10 questions of 3 points and 1 negative point each:
\* 6 answered right, 2 answered wrong, 2 left unanswered
ExampleAnswers ==
    <<"A", "A", "A", "A", "A", "A", "B", "B", NoAnswer, NoAnswer>>
ExampleQuestions ==
    [i \in 1..Len(ExampleAnswers) |->
        Question(10 + i, "Multiple Choice", "Aptitude", "Moderate", 3, 1,
                 <<Opt("A", TRUE), Opt("B", FALSE)>>, "")]

\* submitAnswer for every slot that answers[i] answers, in slot order
RECURSIVE ApplyAnswers(_, _, _)
ApplyAnswers(test, answers, i) ==
    IF i > Len(answers) THEN test
    ELSE ApplyAnswers(IF answers[i] = NoAnswer THEN test
                      ELSE PreSave(submitAnswer(test, i, answers[i])),
                      answers, i + 1)

\* a test begun at time 0 and answered with answers
AnsweredTest(questions, answers, negativeMarking, passing) ==
    ApplyAnswers(
        startTest(NewTest("u1",
                          [totalQuestions |-> Len(questions),
                           durationMinutes |-> durationMinutes,
                           passingPercentage |-> passing,
                           negativeMarking |-> negativeMarking],
                          questions, 0, 0), 0),
        answers, 1)

PassingChoices == {passingPercentage, 50}

InitScore ==
    /\ bank = Pool
    /\ picked = NoSelection
    /\ inflight = <<>>
    /\ now = 0
    /\ users = [u \in Users |-> DefaultTestInfo]
    /\ resp = NoResponse
    /\ activeTestSessions = <<>>
    /\ lastViolation = NoViolation
    /\ \/ \E n \in 1..MaxScoreSlots :
            \E S \in {S \in SUBSET ScorePool : Cardinality(S) = n} :
              \E questions \in Orders(S) :
                \E answers \in [1..Len(questions) -> ScoreAnswers \cup {NoAnswer}] :
                  \E negativeMarking \in BOOLEAN, passing \in PassingChoices :
                    tests = <<AnsweredTest(questions, answers, negativeMarking, passing)>>
       \/ \E negativeMarking \in BOOLEAN :
            tests = <<AnsweredTest(ExampleQuestions, ExampleAnswers, negativeMarking,
                                   passingPercentage)>>

\* test.calculateScore(), the document not saved
Score(t) ==
    /\ tests' = [tests EXCEPT ![t] = calculateScore(@)]
    /\ UNCHANGED <<now, users, resp, proctoringVars, selectionVars, inflight>>

NextScore ==
    \/ \E t \in 1..Len(tests) : Score(t)
    \/ \E u \in DOMAIN users, testId \in TestIds : Submit(u, testId)

SpecScore == InitScore /\ [][NextScore]_vars

---------------------------------------------------------------------------
(* ProctoringService: the in-memory violation logs, one per proctored test *)

\* process.env.ENABLE_PROCTORING === 'true'
proctoringEnabled == TRUE

\* getViolationSeverity(violationType)
getViolationSeverity(violationType) ==
    CASE violationType = "tab_switch" -> "major"
      [] violationType = "window_blur" -> "major"
      [] violationType = "fullscreen_exit" -> "major"
      [] violationType = "copy_paste" -> "critical"
      [] violationType = "right_click" -> "minor"
      [] violationType = "keyboard_shortcut" -> "major"
      [] violationType = "multiple_faces" -> "critical"
      [] violationType = "no_face_detected" -> "major"
      [] violationType = "suspicious_movement" -> "minor"
      [] violationType = "developer_tools" -> "critical"
      [] OTHER -> "minor"

\* session.violations.filter(v => v.severity === severity).length
SeverityCount(violations, severity) ==
    Cardinality({i \in 1..Len(violations) : violations[i].severity = severity})

\* a variant of the termination policy with strict comparisons
ShouldTerminate_Strict(criticalViolations, majorViolations) ==
    criticalViolations > 2 \/ majorViolations > violationThreshold

\* the termination policy of recordViolation
ShouldTerminate(criticalViolations, majorViolations) ==
    criticalViolations >= 2 \/ majorViolations >= violationThreshold

\* the ids of the proctored tests and the violation types the callers report
ProctoredIds == {1, 2}
ReportedTypes == {"tab_switch", "copy_paste", "right_click"}

\* startProctoring(testId, userId)
startProctoring(testId) ==
    /\ proctoringEnabled
    /\ activeTestSessions' =
           [id \in DOMAIN activeTestSessions \cup {testId} |->
               IF id = testId THEN [violations |-> <<>>, isActive |-> TRUE]
               ELSE activeTestSessions[id]]
    /\ UNCHANGED <<now, users, tests, resp, lastViolation, selectionVars, inflight>>

\* stopProctoring(testId)
stopProctoring(testId) ==
    /\ testId \in DOMAIN activeTestSessions
    /\ activeTestSessions' =
           [id \in DOMAIN activeTestSessions \ {testId} |-> activeTestSessions[id]]
    /\ UNCHANGED <<now, users, tests, resp, lastViolation, selectionVars, inflight>>

\* a variant of recordViolation that keeps only the events of the reported severity
recordViolation_Filtering(testId, violationType) ==
    /\ UNCHANGED <<now, users, tests, resp, selectionVars, inflight>>
    /\ IF testId \notin DOMAIN activeTestSessions
       THEN /\ lastViolation' = [success |-> FALSE, shouldTerminate |-> FALSE]
            /\ UNCHANGED activeTestSessions
       ELSE LET violation == [type |-> violationType,
                              severity |-> getViolationSeverity(violationType)]
                violations ==
                    Append(SelectSeq(activeTestSessions[testId].violations,
                                     LAMBDA v : v.severity = violation.severity),
                           violation)
                criticalViolations == SeverityCount(violations, "critical")
                majorViolations == SeverityCount(violations, "major")
            IN  /\ Len(violations) <= MaxViolations
                /\ activeTestSessions' =
                       [activeTestSessions EXCEPT ![testId].violations = violations]
                /\ lastViolation' =
                       [success |-> TRUE,
                        testId |-> testId,
                        violation |-> violation,
                        totalViolations |-> Len(violations),
                        shouldTerminate |->
                            ShouldTerminate(criticalViolations, majorViolations),
                        violationCount |->
                            [critical |-> criticalViolations,
                             major |-> majorViolations,
                             minor |-> SeverityCount(violations, "minor")]]

\* recordViolation(testId, violationType)
recordViolation(testId, violationType) ==
    /\ UNCHANGED <<now, users, tests, resp, selectionVars, inflight>>
    /\ IF testId \notin DOMAIN activeTestSessions
       THEN /\ lastViolation' = [success |-> FALSE, shouldTerminate |-> FALSE]
            /\ UNCHANGED activeTestSessions
       ELSE LET violation == [type |-> violationType,
                              severity |-> getViolationSeverity(violationType)]
                violations == Append(activeTestSessions[testId].violations, violation)
                criticalViolations == SeverityCount(violations, "critical")
                majorViolations == SeverityCount(violations, "major")
            IN  /\ Len(violations) <= MaxViolations
                /\ activeTestSessions' =
                       [activeTestSessions EXCEPT ![testId].violations = violations]
                /\ lastViolation' =
                       [success |-> TRUE,
                        testId |-> testId,
                        violation |-> violation,
                        totalViolations |-> Len(violations),
                        shouldTerminate |->
                            ShouldTerminate(criticalViolations, majorViolations),
                        violationCount |->
                            [critical |-> criticalViolations,
                             major |-> majorViolations,
                             minor |-> SeverityCount(violations, "minor")]]

NextProctor ==
    \/ \E testId \in ProctoredIds : startProctoring(testId)
    \/ \E testId \in ProctoredIds : stopProctoring(testId)
    \/ \E testId \in ProctoredIds, violationType \in ReportedTypes :
           recordViolation(testId, violationType)

SpecProctor == Init /\ [][NextProctor]_vars

---------------------------------------------------------------------------
(* The eligibility gate on its own: POST /start for a candidate in every     *)
(* combination of block, qualification, attempts, cooldown and open session *)

\* the moment of the first request
EligNow == 2 * TickMs

\* the candidate's tests: the earlier ones evaluated, the latest in lastStatus
EligQuestions == CHOOSE questions \in getRandomQuestions(Pool, StartCriteria(totalQuestions)) : TRUE

EligTest(attempt, date, status) ==
    LET created == PreSave(NewTest("u1", TestConfig, EligQuestions, attempt - 1, date))
    IN  CASE status = "Scheduled" -> created
          [] status = "In Progress" -> PreSave(startTest(created, date))
          [] OTHER -> completeTest(startTest(created, date), date)

EligTests(totalAttempts, lastAttemptDate, lastStatus) ==
    [i \in 1..totalAttempts |->
        IF i < totalAttempts THEN EligTest(i, 0, "Evaluated")
        ELSE EligTest(i, lastAttemptDate, lastStatus)]

InitElig ==
    /\ bank = Pool
    /\ picked = NoSelection
    /\ inflight = <<>>
    /\ now = EligNow
    /\ resp = NoResponse
    /\ activeTestSessions = <<>>
    /\ lastViolation = NoViolation
    /\ \E blockedUntil \in {NoDate, EligNow - TickMs, EligNow + TickMs},
          hasQualified \in BOOLEAN,
          totalAttempts \in 0..maxAttempts,
          lastAttemptDate \in {NoDate, EligNow - TickMs, EligNow - 2 * TickMs},
          lastStatus \in {"Scheduled", "In Progress", "Evaluated"} :
         /\ (totalAttempts = 0) = (lastAttemptDate = NoDate)
         /\ totalAttempts = 0 => ~hasQualified /\ lastStatus = "Evaluated"
         /\ users = [u \in Users |->
                [DefaultTestInfo EXCEPT
                    !.blockedUntil = blockedUntil,
                    !.hasQualified = hasQualified,
                    !.qualificationDate = IF hasQualified THEN lastAttemptDate ELSE NoDate,
                    !.totalAttempts = totalAttempts,
                    !.lastAttemptDate = lastAttemptDate]]
         /\ tests = EligTests(totalAttempts, lastAttemptDate, lastStatus)

NextElig ==
    \/ Tick
    \/ \E u \in DOMAIN users : Start(u)

SpecElig == InitElig /\ [][NextElig]_vars

---------------------------------------------------------------------------
(* Properties of the session lifecycle, checked under Spec *)

\* elapsed time exceeds the limit: now - startTime > durationMinutes * 60 seconds
PastLimit(test) ==
    now - test.startTime > test.testConfig.durationMinutes * MsPerMinute

\* the step is the router's answer to a request of kind op
Handled(op) == resp'.op = op /\ now' = now

\* C1: once a session is Evaluated, every later operation on it (begin, answer,
\* flag, violation report, submit, status poll) leaves the stored session -- status,
\* score block, isPassed, every slot -- exactly as it was; a second submit does not
\* recompute the score.
C1_EvaluatedIsFinal ==
    [][\A t \in 1..Len(tests) :
          tests[t].status = "Evaluated" =>
              /\ t <= Len(tests')
              /\ tests'[t] = tests[t]]_vars

\* a second submit of an evaluated session has been rejected
C1_SecondSubmitRejected ==
    /\ tests # <<>>
    /\ \A t \in 1..Len(tests) : tests[t].status = "Evaluated"
    /\ resp = Response("submit", 400, "Test is not in progress")

\* C2: an answer request on a session In Progress past its time limit is rejected,
\* the answer is not recorded in the slot, and the session becomes Evaluated with
\* the score of the answers recorded before.
C2_ExpiredAnswer ==
    [][\A t \in TestIds :
          (tests[t].status = "In Progress" /\ PastLimit(tests[t]) /\ Handled("answer"))
          => \A u \in DOMAIN users, n \in QuestionNumbers, a \in Answers :
                Answer(u, t, n, a)
                => /\ resp' = Response("answer", 400, "Test time has expired")
                   /\ tests'[t].status = "Evaluated"
                   /\ tests'[t].questions = tests[t].questions
                   /\ tests'[t].score = ScoreOf(tests[t])
                   /\ tests'[t].isPassed =
                          (tests'[t].score.percentage
                              >= tests[t].testConfig.passingPercentage)]_vars

\* an expired answer request ended a session that holds an earlier answer and an
\* unanswered slot
C2_ExpiredAnswerSeen ==
    /\ resp = Response("answer", 400, "Test time has expired")
    /\ \E t \in 1..Len(tests) :
          /\ tests[t].status = "Evaluated"
          /\ tests[t].score.attemptedQuestions >= 1
          /\ tests[t].score.unansweredQuestions >= 1

\* C3: a flag, violation report or submit on a session In Progress past its time
\* limit does not take effect (no flag change, no violation counted, no submit
\* accepted): the request is rejected and the session is terminated and scored.
C3_ClockCheckedFirst ==
    [][\A t \in TestIds :
          (tests[t].status = "In Progress" /\ PastLimit(tests[t]) /\ now' = now)
          => \A u \in DOMAIN users :
                (\/ \E n \in QuestionNumbers, f \in BOOLEAN : Flag(u, t, n, f)
                 \/ \E v \in ViolationTypes : Proctoring(u, t, v)
                 \/ Submit(u, t))
                => /\ resp'.code >= 400
                   /\ tests'[t].status = "Evaluated"
                   /\ tests'[t].questions = tests[t].questions
                   /\ tests'[t].proctoring = tests[t].proctoring]_vars

\* a flag was set on a session past its limit, and the session is still In Progress
C3_FlagAfterExpiry ==
    /\ resp = Response("flag", 200, "")
    /\ \E t \in 1..Len(tests) :
          /\ tests[t].status = "In Progress"
          /\ PastLimit(tests[t])
          /\ \E i \in 1..Len(tests[t].questions) :
                tests[t].questions[i].userResponse.flaggedForReview

\* C4: begin is accepted only on a Scheduled session, and answer, flag, violation
\* report and submit only on a session In Progress; in every other state the request
\* is rejected and the stored session and the candidate's record are unchanged.
C4_LegalStatesOnly ==
    [][\A t \in TestIds, u \in DOMAIN users :
          /\ (tests[t].status # "Scheduled" /\ Handled("begin") /\ Begin(u, t))
                => resp'.code >= 400 /\ tests' = tests /\ users' = users
          /\ (/\ tests[t].status # "In Progress"
              /\ now' = now
              /\ \/ \E n \in QuestionNumbers, a \in Answers : Answer(u, t, n, a)
                 \/ \E n \in QuestionNumbers, f \in BOOLEAN : Flag(u, t, n, f)
                 \/ \E v \in ViolationTypes : Proctoring(u, t, v)
                 \/ Submit(u, t))
                => resp'.code >= 400 /\ tests' = tests /\ users' = users]_vars

\* an answer to a session that has not begun was rejected
C4_AnswerBeforeBegin ==
    /\ resp = Response("answer", 400, "Test is not in progress")
    /\ \E t \in 1..Len(tests) : tests[t].status = "Scheduled"

---------------------------------------------------------------------------
(* Properties of the eligibility gate, checked under SpecElig *)

\* the five rejection conditions of a candidate, read off the stored records
TemporarilyBlocked(u) ==
    users[u].blockedUntil # NoDate /\ users[u].blockedUntil > now
AlreadyQualified(u) == users[u].hasQualified
MaxAttemptsReached(u) == users[u].totalAttempts >= maxAttempts
CooldownNotElapsed(u) ==
    /\ users[u].lastAttemptDate # NoDate
    /\ now - users[u].lastAttemptDate < CooldownHours * MsPerHour
ActiveSessionExists(u) ==
    \E t \in 1..Len(tests) :
        tests[t].user = u /\ tests[t].status \in {"Scheduled", "In Progress"}

\* the reason of the highest-priority condition that holds, "" when none holds
PriorityReason(u) ==
    IF TemporarilyBlocked(u) THEN "Account is temporarily blocked"
    ELSE IF AlreadyQualified(u) THEN "Already qualified"
    ELSE IF MaxAttemptsReached(u) THEN "Maximum attempts reached"
    ELSE IF CooldownNotElapsed(u) THEN "Please wait"
    ELSE IF ActiveSessionExists(u) THEN "You have an active test session. Please complete it first."
    ELSE ""

\* C5: session creation answers with the reason of the first condition that holds,
\* in the order blocked, qualified, maximum attempts, cooldown, active session, for
\* every combination of the five; it creates a session only when none holds.
C5_EligibilityPriority ==
    [][\A u \in DOMAIN users :
          Start(u) =>
              /\ resp'.error = PriorityReason(u)
              /\ (resp'.code = 201) = (PriorityReason(u) = "")
              /\ (Len(tests') = Len(tests) + 1) = (PriorityReason(u) = "")
              /\ PriorityReason(u) # "" => tests' = tests /\ users' = users]_vars

\* a candidate who is qualified, out of attempts, in cooldown and has a session open
\* was refused as qualified
C5_QualifiedOutranks ==
    /\ resp = Response("start", 403, "Already qualified")
    /\ ~TemporarilyBlocked("u1")
    /\ MaxAttemptsReached("u1")
    /\ CooldownNotElapsed("u1")
    /\ ActiveSessionExists("u1")

---------------------------------------------------------------------------
(* Properties of the proctoring service, checked under SpecProctor *)

\* the events of a severity in a violation log
CountOf(log, severity) ==
    Cardinality({i \in DOMAIN log : log[i].severity = severity})

\* C6: recordViolation returns shouldTerminate = true exactly when, counting the
\* event it has just appended, the session's log holds at least 2 critical events or
\* at least violationThreshold major events.
C6_TerminationPolicy ==
    [][\A testId \in ProctoredIds, violationType \in ReportedTypes :
          (testId \in DOMAIN activeTestSessions /\ recordViolation(testId, violationType))
          => LET log == activeTestSessions'[testId].violations
             IN  /\ Len(log) = Len(activeTestSessions[testId].violations) + 1
                 /\ log[Len(log)].type = violationType
                 /\ lastViolation'.success
                 /\ lastViolation'.shouldTerminate =
                        (\/ CountOf(log, "critical") >= 2
                         \/ CountOf(log, "major") >= violationThreshold)]_vars

\* the second critical violation of a session with no major violation returned
\* shouldTerminate = true
C6_SecondCriticalTerminates ==
    /\ lastViolation.success
    /\ lastViolation.shouldTerminate
    /\ lastViolation.totalViolations = 2
    /\ lastViolation.violationCount = [critical |-> 2, major |-> 0, minor |-> 0]

---------------------------------------------------------------------------
(* Properties of the score block *)

\* the sessions that have been evaluated
Evaluated == {t \in 1..Len(tests) : tests[t].status = "Evaluated"}

\* C7, as stated: in every evaluated session 0 <= score.percentage <= 100.
C7_PercentageWithinBounds ==
    \A t \in Evaluated :
        tests[t].score.percentage >= 0 /\ tests[t].score.percentage <= 100

\* the sum of the negative points of all slots
AllNegativePoints(test) ==
    SeqSum([i \in 1..Len(test.questions) |-> test.questions[i].negativePoints])

\* C7, as the code computes it: in every evaluated session score.percentage <= 100,
\* score.percentage >= 0 whenever netScore >= 0, and a negative netScore gives a
\* percentage <= 0 that is no lower than the rounded percentage of minus the
\* negative points of all slots.
C7_PercentageRange ==
    \A t \in Evaluated :
        LET score == tests[t].score
        IN  /\ score.percentage <= 100
            /\ score.netScore >= 0 => score.percentage >= 0
            /\ score.netScore < 0 => score.percentage <= 0
            /\ score.percentage >=
                   RoundPct(-AllNegativePoints(tests[t]), score.totalPoints)

\* a session in which every question was answered wrong under negative marking was
\* evaluated with a negative percentage
C7_AllWrongIsNegative ==
    \E t \in Evaluated :
        /\ tests[t].testConfig.negativeMarking
        /\ tests[t].score.wrongAnswers = Len(tests[t].questions)
        /\ tests[t].score.percentage < 0

\* the documents calculateScore has run on
Scored == {t \in 1..Len(tests) : tests[t].score # DefaultScore}

\* C8: computing the score of a document again gives the same score block and the
\* same isPassed, and computing the score leaves every slot as it was.
C8_ScoringDeterministic ==
    \A t \in 1..Len(tests) :
        LET once == calculateScore(tests[t])
            twice == calculateScore(once)
        IN  /\ twice.score = once.score
            /\ twice.isPassed = once.isPassed
            /\ once.questions = tests[t].questions
            /\ twice.questions = tests[t].questions
            /\ t \in Scored => once = tests[t]

\* a session In Progress with a right and a wrong answer has been scored
C8_ScoredOnce ==
    \E t \in Scored :
        /\ tests[t].status = "In Progress"
        /\ tests[t].score.correctAnswers >= 1
        /\ tests[t].score.wrongAnswers >= 1

\* what a slot contributes to the net score
Contribution(slot, negativeMarking) ==
    IF ~slot.userResponse.isAnswered THEN 0
    ELSE IF slot.isCorrect = "true" THEN slot.points
    ELSE IF negativeMarking THEN -slot.negativePoints
    ELSE 0

\* the slots that are answered, with the given outcome
AnsweredSlots(test, correct) ==
    {i \in 1..Len(test.questions) :
        /\ test.questions[i].userResponse.isAnswered
        /\ (test.questions[i].isCorrect = "true") = correct}

\* C9: an unanswered slot contributes 0 and counts neither as correct nor as wrong,
\* an answered correct slot contributes +points, an answered incorrect slot
\* -negativePoints under negative marking and 0 without; totalPoints is the sum of
\* the points, netScore the sum of the contributions; 6 correct at 3 points, 2 wrong
\* at 1 negative point and 2 unanswered give 30, 16 and 53 percent.
C9_SlotContributions ==
    \A t \in Scored :
        LET test == tests[t]
            slots == test.questions
            score == test.score
        IN  /\ score.totalPoints = SeqSum([i \in 1..Len(slots) |-> slots[i].points])
            /\ score.netScore =
                   SeqSum([i \in 1..Len(slots) |->
                              Contribution(slots[i], test.testConfig.negativeMarking)])
            /\ score.correctAnswers = Cardinality(AnsweredSlots(test, TRUE))
            /\ score.wrongAnswers = Cardinality(AnsweredSlots(test, FALSE))
            /\ score.correctAnswers + score.wrongAnswers + score.unansweredQuestions
                   = Len(slots)
            /\ score.percentage = RoundPct(score.netScore, score.totalPoints)
            /\ (Len(slots) = Len(ExampleAnswers) /\ test.testConfig.negativeMarking)
                   => /\ score.totalPoints = 30
                      /\ score.netScore = 16
                      /\ score.percentage = 53

\* the session of the example has been scored: 30 points, net score 16, 53 percent
C9_ExampleScored ==
    \E t \in Scored :
        /\ Len(tests[t].questions) = Len(ExampleAnswers)
        /\ tests[t].score.correctAnswers = 6
        /\ tests[t].score.wrongAnswers = 2
        /\ tests[t].score.unansweredQuestions = 2
        /\ tests[t].score.netScore = 16
        /\ tests[t].score.percentage = 53

\* the grade of a percentage, by inclusive lower bounds
LadderGrade(percentage) ==
    CASE percentage >= 90 -> "A+"
      [] percentage >= 80 /\ percentage < 90 -> "A"
      [] percentage >= 70 /\ percentage < 80 -> "B+"
      [] percentage >= 60 /\ percentage < 70 -> "B"
      [] percentage >= 50 /\ percentage < 60 -> "C+"
      [] percentage >= 40 /\ percentage < 50 -> "C"
      [] percentage >= 30 /\ percentage < 40 -> "D"
      [] OTHER -> "F"

\* the percentages a score block can hold: negative points are at most 5 per point
Percentages == (-500)..100

\* C10: the grade of every percentage is A+ from 90, A from 80, B+ from 70, B from
\* 60, C+ from 50, C from 40, D from 30 and F below, negative percentages included;
\* a scored session has the grade of its percentage and isPassed exactly when the
\* percentage is at least its passingPercentage.
C10_GradeAndPass ==
    /\ \A percentage \in Percentages : Grade(percentage) = LadderGrade(percentage)
    /\ \A t \in Scored :
          /\ tests[t].score.grade = LadderGrade(tests[t].score.percentage)
          /\ tests[t].isPassed =
                 (tests[t].score.percentage >= tests[t].testConfig.passingPercentage)

\* a session evaluated at exactly its passing percentage, the lower bound of C+,
\* has passed with grade C+
C10_BoundaryPass ==
    \E t \in Evaluated :
        /\ tests[t].score.percentage = tests[t].testConfig.passingPercentage
        /\ tests[t].isPassed
        /\ tests[t].score.grade = "C+"
        /\ Grade(-1) = "F"

---------------------------------------------------------------------------
(* Properties of the candidate's attempt record, checked under Spec *)

\* the sessions stored for a candidate
SessionsOf(u) == {t \in 1..Len(tests) : tests[t].user = u}

\* C11: a creation request of a candidate with totalAttempts >= maxAttempts who is
\* neither blocked nor qualified is rejected with "Maximum attempts reached"; over
\* any sequence of requests no candidate has more than maxAttempts sessions and
\* totalAttempts never exceeds maxAttempts.
C11_AttemptCap ==
    [][\A u \in DOMAIN users :
          /\ (/\ users[u].totalAttempts >= maxAttempts
              /\ ~(users[u].blockedUntil # NoDate /\ users[u].blockedUntil > now)
              /\ ~users[u].hasQualified
              /\ Handled("start")
              /\ Start(u))
                => /\ resp' = Response("start", 403, "Maximum attempts reached")
                   /\ tests' = tests
                   /\ users' = users
          /\ users'[u].totalAttempts <= maxAttempts
          /\ Len(tests') <= Len(tests) + 1
          /\ Cardinality({t \in 1..Len(tests') : tests'[t].user = u}) <= maxAttempts]_vars

\* a candidate who has used maxAttempts sessions was refused another one
C11_CapReached ==
    \E u \in DOMAIN users :
        /\ resp = Response("start", 403, "Maximum attempts reached")
        /\ users[u].totalAttempts = maxAttempts
        /\ Cardinality(SessionsOf(u)) = maxAttempts
        /\ ~users[u].hasQualified

\* the candidate has a session that was evaluated as passed
HasPassedSession(u) ==
    \E t \in SessionsOf(u) : tests[t].status = "Evaluated" /\ tests[t].isPassed

\* C12: once a candidate has an Evaluated session with isPassed = true, however it
\* was terminated (submit, timeout, violation threshold), every later creation
\* request of that candidate is rejected as already qualified.
C12_QualifiedLock ==
    [][\A u \in DOMAIN users :
          (HasPassedSession(u) /\ Handled("start") /\ Start(u))
              => /\ resp' = Response("start", 403, "Already qualified")
                 /\ tests' = tests]_vars

\* a candidate whose passed session was ended by the timeout was given a new session
C12_NewSessionAfterPass ==
    \E u \in DOMAIN users :
        /\ resp = Response("start", 201, "")
        /\ HasPassedSession(u)
        /\ ~users[u].hasQualified
        /\ \E t \in SessionsOf(u) : tests[t].status = "Scheduled"

\* the step evaluates session t
BecomesEvaluated(t) ==
    tests[t].status # "Evaluated" /\ tests'[t].status = "Evaluated"

\* C13: whenever a session becomes Evaluated, by submit or by forced termination
\* (timeout found by an answer or status request, violation threshold), the same
\* request writes the result to the candidate's record: bestScore >= the session's
\* percentage, and hasQualified with a qualification date if the session isPassed.
C13_ResultWrittenBack ==
    [][\A t \in 1..Len(tests) :
          BecomesEvaluated(t)
              => LET testInfo == users'[tests[t].user]
                 IN  /\ testInfo.bestScore >= tests'[t].score.percentage
                     /\ tests'[t].isPassed
                            => testInfo.hasQualified /\ testInfo.qualificationDate # NoDate]_vars

\* a status request found the timeout of a passed session and the candidate's
\* record still shows no qualification and no best score
C13_TimeoutNotWrittenBack ==
    \E t \in 1..Len(tests) :
        /\ resp = Response("status", 200, "")
        /\ tests[t].status = "Evaluated"
        /\ tests[t].isPassed
        /\ ~users[tests[t].user].hasQualified
        /\ users[tests[t].user].bestScore < tests[t].score.percentage

---------------------------------------------------------------------------
(* Properties of violation reports, checked under Spec *)

\* the major violations counted on a session: tab switches and fullscreen exits
MajorCount(test) ==
    test.proctoring.tabSwitchViolations + test.proctoring.fullScreenViolations

\* C14: a violation report that brings a session's count of major violations (tab
\* switch, fullscreen exit) to violationThreshold force-submits the session in the
\* same request: it becomes Evaluated, scored exactly as by submit.
C14_ThresholdForcesSubmit ==
    [][\A t \in 1..Len(tests) :
          (/\ tests[t].status = "In Progress"
           /\ Handled("proctoring")
           /\ MajorCount(tests'[t]) = MajorCount(tests[t]) + 1
           /\ MajorCount(tests'[t]) >= violationThreshold)
              => /\ tests'[t].status = "Evaluated"
                 /\ tests'[t].score = ScoreOf(tests[t])]_vars

\* the report of the tab switch that reached violationThreshold was recorded and the
\* session is still In Progress
C14_ThresholdNotEnforced ==
    \E t \in 1..Len(tests) :
        /\ resp = Response("proctoring", 200, "Violation recorded")
        /\ tests[t].status = "In Progress"
        /\ tests[t].proctoring.tabSwitchViolations = violationThreshold

---------------------------------------------------------------------------
(* Question selection on its own: getRandomQuestions and POST /start over    *)
(* every bank of active, draft and unapproved questions                     *)

\* the largest count a direct call asks for
MaxCount == 3

\* the documents a bank can hold: active and approved ones of each difficulty, a
\* draft and an unapproved one
BankDocs ==
    ScorePool \cup
    { [Question(5, "True/False", "Technical", "Easy", 2, 1, <<>>, "A")
          EXCEPT !.status = "Draft"],
      [Question(6, "Fill in the Blank", "Reasoning", "Hard", 4, 1, <<>>, "B")
          EXCEPT !.isApproved = FALSE] }

\* the distributions and exclusions a caller passes
Distributions ==
    { DifficultyDistribution,
      <<[difficulty |-> "Easy", percentage |-> 50],
        [difficulty |-> "Moderate", percentage |-> 50],
        [difficulty |-> "Hard", percentage |-> 0]>> }
Exclusions == {{}, {1}}

InitSelect ==
    /\ bank \in SUBSET BankDocs
    /\ picked = NoSelection
    /\ inflight = <<>>
    /\ now = 0
    /\ users = [u \in Users |-> DefaultTestInfo]
    /\ tests = <<>>
    /\ resp = NoResponse
    /\ activeTestSessions = <<>>
    /\ lastViolation = NoViolation

\* Question.getRandomQuestions(criteria), called directly
Select(criteria) ==
    /\ \E result \in getRandomQuestions(bank, criteria) :
           picked' = [criteria |-> criteria, result |-> result]
    /\ UNCHANGED <<now, users, tests, resp, proctoringVars, bank, inflight>>

NextSelect ==
    \/ \E count \in 1..MaxCount, difficulty \in Distributions, excludeIds \in Exclusions :
           Select([count |-> count, difficulty |-> difficulty, excludeIds |-> excludeIds])
    \/ \E u \in DOMAIN users : Start(u)

SpecSelect == InitSelect /\ [][NextSelect]_vars

---------------------------------------------------------------------------
(* Properties of question selection, checked under SpecSelect *)

\* the questions of the bank a selection may use
Selectable(excludeIds) ==
    {q \in bank : q.status = "Active" /\ q.isApproved /\ q.questionId \notin excludeIds}

\* the sequence holds count pairwise-distinct questions, all of them selectable
ValidSelection(result, count, excludeIds) ==
    /\ Len(result) = count
    /\ \A i, j \in 1..Len(result) : i # j => result[i].questionId # result[j].questionId
    /\ \A i \in 1..Len(result) : result[i] \in Selectable(excludeIds)

\* C15: selection has two outcomes. Either it yields exactly totalCount pairwise
\* distinct questions, all approved, active and not excluded, which become the new
\* session's slots numbered 1..totalCount; or the eligible questions are fewer than
\* totalCount, and then creation is rejected, no session is stored and the
\* candidate's totalAttempts and lastAttemptDate are unchanged.
C15_SelectionOutcomes ==
    [][/\ picked' # picked
          => LET criteria == picked'.criteria
             IN  IF Cardinality(Selectable(criteria.excludeIds)) >= criteria.count
                 THEN ValidSelection(picked'.result, criteria.count, criteria.excludeIds)
                 ELSE Len(picked'.result) < criteria.count
       /\ \A u \in DOMAIN users :
             (/\ canAttemptTest(users[u], now).canAttempt
              /\ ActiveTest(u) = NoTest
              /\ picked' = picked
              /\ Start(u))
             => IF Cardinality(Selectable({})) >= totalQuestions
                THEN /\ resp'.code = 201
                     /\ Len(tests') = Len(tests) + 1
                     /\ LET slots == tests'[Len(tests')].questions
                        IN  /\ Len(slots) = totalQuestions
                            /\ \A i \in 1..Len(slots) :
                                  /\ slots[i].questionNumber = i
                                  /\ \E q \in Selectable({}) :
                                        q.questionId = slots[i].questionId
                            /\ \A i, j \in 1..Len(slots) :
                                  i # j => slots[i].questionId # slots[j].questionId
                ELSE /\ resp'.code = 500
                     /\ tests' = tests
                     /\ users' = users]_vars

\* creation was rejected for a bank that holds questions, but too few that are
\* active and approved; nothing is stored and the candidate's record is untouched
C15_CreationRejected ==
    /\ resp = Response("start", 500,
                       "Insufficient questions available. Please contact support.")
    /\ Cardinality(bank) >= totalQuestions
    /\ Cardinality(Selectable({})) < totalQuestions
    /\ tests = <<>>
    /\ \A u \in DOMAIN users : users[u] = DefaultTestInfo

\* a selection of ten at 30/30/40 from a bank with a single Hard question
ExampleBank ==
    {Question(20 + i, "Multiple Choice", "Aptitude", "Easy", 2, 1,
              <<Opt("A", TRUE), Opt("B", FALSE)>>, "") : i \in 1..5}
    \cup {Question(30 + i, "Multiple Choice", "Reasoning", "Moderate", 3, 1,
                   <<Opt("A", TRUE), Opt("B", FALSE)>>, "") : i \in 1..5}
    \cup {Question(41, "Multiple Choice", "Technical", "Hard", 4, 1,
                   <<Opt("A", TRUE), Opt("B", FALSE)>>, "")}

ExampleCriteria == StartCriteria(Cardinality(ExampleBank) - 1)

\* the sets of documents the example selection can return
ExampleSelections ==
    UNION {Sliced(docs, ExampleCriteria.count) : docs \in Gathered(ExampleBank, ExampleCriteria)}

\* round(count * percentage / 100), halves rounded up
Share(count, percentage) == (count * percentage + 50) \div 100

\* the number of documents of a difficulty in a set, and in a sequence
HeldOf(docs, difficulty) == Cardinality({q \in docs : q.difficulty = difficulty})
PickedOf(result, difficulty) ==
    Cardinality({i \in 1..Len(result) : result[i].difficulty = difficulty})

\* the selection holds its share of every difficulty when every bucket can supply
\* it, and otherwise all the questions of each bucket that is short
SharesMet(result, docs, criteria) ==
    LET Target(d) == Share(criteria.count, criteria.difficulty[d].percentage)
        Held(d) == HeldOf(docs, criteria.difficulty[d].difficulty)
        Got(d) == PickedOf(result, criteria.difficulty[d].difficulty)
        D == DOMAIN criteria.difficulty
    IN  /\ (\A d \in D : Held(d) >= Target(d)) => \A d \in D : Got(d) = Target(d)
        /\ \A d \in D : Held(d) < Target(d) => Got(d) = Held(d)

\* the rounded shares of a selection add up to its count
SharesFit(criteria) ==
    SeqSum([d \in DOMAIN criteria.difficulty |->
               Share(criteria.count, criteria.difficulty[d].percentage)]) = criteria.count

\* every selection of the example has the single Hard question and nine others
ExampleShares ==
    /\ ExampleSelections # {}
    /\ \A docs \in ExampleSelections :
          /\ Cardinality(docs) = ExampleCriteria.count
          /\ HeldOf(docs, "Hard") = 1

\* C16 as stated: for every count and distribution, when each difficulty holds at
\* least round(count * percentage / 100) eligible questions the selection has
\* exactly that many of each difficulty, and when a difficulty is short all its
\* eligible questions are selected.
C16_ExactShares ==
    picked # NoSelection
    => SharesMet(picked.result, Selectable(picked.criteria.excludeIds), picked.criteria)

\* C16, for the counts and distributions whose rounded shares add up to the count:
\* when each difficulty holds at least its share the selection has exactly that
\* many of each difficulty, and when a difficulty is short all its eligible
\* questions are selected and the rest comes from the other difficulties (ten at
\* 30/30/40 with one Hard question: that one and nine others).
C16_SharesWhenTheyFit ==
    /\ ExampleShares
    /\ (picked # NoSelection /\ SharesFit(picked.criteria))
       => SharesMet(picked.result, Selectable(picked.criteria.excludeIds),
                    picked.criteria)

\* three were asked at 30/30/40 from a bank without an eligible Hard question:
\* the selection is filled up from the other difficulties
C16_ShortBucketFilled ==
    /\ picked.criteria = StartCriteria(MaxCount)
    /\ HeldOf(Selectable({}), "Hard") = 0
    /\ Len(picked.result) = picked.criteria.count
    /\ PickedOf(picked.result, "Hard") = 0

---------------------------------------------------------------------------
(* Two candidates: requests that name the other candidate's session, or none *)

Candidates == {"u1", "u2"}

\* the ids a request can name: the stored tests and one id that is not stored
NamedIds == 1..(Len(tests) + 1)

\* a stored session of a candidate, created at the start of time
OwnerTest(u, status) ==
    LET created == PreSave(NewTest(u, TestConfig, EligQuestions, 0, 0))
    IN  IF status = "Scheduled" THEN created ELSE PreSave(startTest(created, EligNow))

\* one candidate owns the stored session; the other has none, and may be blocked
InitOwner ==
    /\ bank = Pool
    /\ picked = NoSelection
    /\ inflight = <<>>
    /\ now = EligNow
    /\ resp = NoResponse
    /\ activeTestSessions = <<>>
    /\ lastViolation = NoViolation
    /\ \E owner \in Candidates, status \in {"Scheduled", "In Progress"},
          blockedUntil \in {NoDate, EligNow + TickMs} :
          /\ tests = <<OwnerTest(owner, status)>>
          /\ users = [u \in Candidates |->
                         IF u = owner
                         THEN [DefaultTestInfo EXCEPT !.totalAttempts = 1,
                                                      !.lastAttemptDate = 0]
                         ELSE [DefaultTestInfo EXCEPT !.blockedUntil = blockedUntil]]

NextOwner ==
    \/ \E u \in DOMAIN users, testId \in NamedIds : Begin(u, testId)
    \/ \E u \in DOMAIN users, testId \in NamedIds, n \in QuestionNumbers, a \in Answers :
           Answer(u, testId, n, a)
    \/ \E u \in DOMAIN users, testId \in NamedIds, n \in QuestionNumbers, f \in BOOLEAN :
           Flag(u, testId, n, f)
    \/ \E u \in DOMAIN users, testId \in NamedIds : Submit(u, testId)
    \/ \E u \in DOMAIN users, testId \in NamedIds, v \in ViolationTypes :
           Proctoring(u, testId, v)

SpecOwner == InitOwner /\ [][NextOwner]_vars

\* the request names no stored session of the candidate that makes it
Foreign(u, testId) == testId \notin 1..Len(tests) \/ tests[testId].user # u

\* the step answers a begin, answer, flag, violation or submit request of u on testId
Mutating(u, testId) ==
    \/ Handled("begin") /\ Begin(u, testId)
    \/ Handled("answer") /\ \E n \in QuestionNumbers, a \in Answers : Answer(u, testId, n, a)
    \/ Handled("flag") /\ \E n \in QuestionNumbers, f \in BOOLEAN : Flag(u, testId, n, f)
    \/ Handled("submit") /\ Submit(u, testId)
    \/ Handled("proctoring") /\ \E v \in ViolationTypes : Proctoring(u, testId, v)

\* C17: only the owning candidate's requests mutate a session. A begin, answer,
\* flag, violation or submit request of a candidate that names a session of another
\* candidate, or an id that is not stored, is rejected -- as not found (404) or
\* invalid (400) once it has passed the token check -- and leaves every stored
\* session and every candidate's record unchanged.
C17_OnlyOwnerMutates ==
    [][\A u \in DOMAIN users, testId \in NamedIds :
          (Foreign(u, testId) /\ Mutating(u, testId))
          => /\ tests' = tests
             /\ users' = users
             /\ resp'.code \in {400, 403, 404}
             /\ canAttemptTest(users[u], now).canAttempt => resp'.code \in {400, 404}]_vars

\* a submit was answered "not found" while a session in progress is stored, and
\* the candidate that does not own it has an untouched record
C17_ForeignSubmitRejected ==
    /\ resp = Response("submit", 404, "Test not found")
    /\ Len(tests) = 1
    /\ tests[1].status = "In Progress"
    /\ \E u \in DOMAIN users : tests[1].user # u /\ users[u] = DefaultTestInfo

---------------------------------------------------------------------------
(* Properties of the slots' evaluation outcome, checked under Spec *)

\* the slot carries no evaluation outcome
OutcomeUnset(question) == question.isCorrect = "null" /\ question.pointsEarned = 0

\* C18: in every reachable state, each slot's evaluation outcome (isCorrect null,
\* pointsEarned 0) is unset while the session is Scheduled or In Progress, whatever
\* answers have been recorded; only the transition to Evaluated sets it.
C18_OutcomeUnsetUntilEvaluated ==
    \A t \in 1..Len(tests) :
        tests[t].status \in {"Scheduled", "In Progress"}
        => \A i \in 1..Len(tests[t].questions) : OutcomeUnset(tests[t].questions[i])

\* a session in progress holds a slot that is already marked right or wrong and
\* already carries its points
C18_OutcomeSetByAnswer ==
    \E t \in 1..Len(tests) :
        /\ tests[t].status = "In Progress"
        /\ \E i \in 1..Len(tests[t].questions) :
              /\ tests[t].questions[i].userResponse.isAnswered
              /\ tests[t].questions[i].isCorrect = "true"
              /\ tests[t].questions[i].pointsEarned = tests[t].questions[i].points

---------------------------------------------------------------------------
(* Requests of one candidate in flight at once on one stored session. Each   *)
(* route is cut at its awaits: the document is loaded by findOne, and later  *)
(* the copy is changed and saved. save() writes the paths the request has    *)
(* modified; Mongoose puts the version the copy was loaded with in the       *)
(* update's filter when a path inside an array element is set (an answer),   *)
(* increments it when an array is pushed to (a violation), and does both     *)
(* when an array is set (the score block of completeTest)                    *)

MaxRequests == 2
MaxExcess == 1

RaceUser == "u1"
RaceTest == 1

Idle == [op |-> "none", arg |-> <<>>, copy |-> <<>>, stale |-> FALSE, stage |-> "idle"]

\* the catch block of each route
Failure(op) ==
    CASE op = "answer" -> "Failed to submit answer"
      [] op = "flag" -> "Failed to flag question"
      [] op = "submit" -> "Failed to submit test"
      [] OTHER -> "Failed to record violation"

\* save() of a copy: the modified paths written over the stored document
SaveAnswer(stored, copy, i) ==
    [stored EXCEPT
        !.questions[i].userResponse.selectedAnswer = copy.questions[i].userResponse.selectedAnswer,
        !.questions[i].userResponse.selectedOption = copy.questions[i].userResponse.selectedOption,
        !.questions[i].userResponse.isAnswered = copy.questions[i].userResponse.isAnswered,
        !.questions[i].isCorrect = copy.questions[i].isCorrect,
        !.questions[i].pointsEarned = copy.questions[i].pointsEarned]

SaveFlag(stored, copy, i) ==
    [stored EXCEPT !.questions[i].userResponse.flaggedForReview =
                       copy.questions[i].userResponse.flaggedForReview]

SaveViolation(stored, copy, violationType) ==
    [stored EXCEPT
        !.proctoring.tabSwitchViolations =
            IF violationType = "tab_switch" THEN copy.proctoring.tabSwitchViolations ELSE @,
        !.proctoring.fullScreenViolations =
            IF violationType = "full_screen_exit" THEN copy.proctoring.fullScreenViolations ELSE @]

SaveCompletion(stored, copy) ==
    [stored EXCEPT !.endTime = copy.endTime,
                   !.submittedAt = copy.submittedAt,
                   !.actualDurationMinutes = copy.actualDurationMinutes,
                   !.status = copy.status,
                   !.score = copy.score,
                   !.isPassed = copy.isPassed]

\* the request is done; a save that incremented the version makes the copies of
\* the other requests stale
Done(r, incremented) ==
    [o \in DOMAIN inflight |->
        IF o = r THEN Idle
        ELSE IF incremented /\ inflight[o].stage # "idle"
        THEN [inflight[o] EXCEPT !.stale = TRUE]
        ELSE inflight[o]]

\* the stored session of the candidate: in progress, two violations from the limit
InitRace ==
    /\ bank = Pool
    /\ picked = NoSelection
    /\ now = EligNow
    /\ resp = NoResponse
    /\ activeTestSessions = <<>>
    /\ lastViolation = NoViolation
    /\ users = [u \in Users |-> [DefaultTestInfo EXCEPT !.totalAttempts = 1,
                                                        !.lastAttemptDate = 0]]
    /\ tests = <<[OwnerTest(RaceUser, "In Progress") EXCEPT
                     !.proctoring.tabSwitchViolations = warningThreshold - 2]>>
    /\ inflight = [r \in 1..MaxRequests |-> Idle]

\* the token check and Test.findOne, up to the first checks on the copy
Load(r, op, arg) ==
    LET check == authenticateTest(RaceUser)
        t == FindTest(RaceTest, RaceUser)
    IN  /\ inflight[r].stage = "idle"
        /\ op = "proctoring" /\ t # NoTest
           => TotalViolations(tests[t]) < warningThreshold + MaxExcess
        /\ UNCHANGED <<now, users, tests, proctoringVars, selectionVars>>
        /\ IF ~check.canAttempt
           THEN resp' = Refused(op, check) /\ UNCHANGED inflight
           ELSE IF op \in {"answer", "submit"} /\ t = NoTest
           THEN resp' = Response(op, 404, "Test not found") /\ UNCHANGED inflight
           ELSE IF op \in {"answer", "submit"} /\ ~IsInProgress(tests[t])
           THEN resp' = Response(op, 400, "Test is not in progress") /\ UNCHANGED inflight
           ELSE IF t = NoTest \/ ~IsInProgress(tests[t])
           THEN resp' = Response(op, 400, "Invalid test session") /\ UNCHANGED inflight
           ELSE /\ inflight' = [inflight EXCEPT ![r] =
                       [op |-> op, arg |-> arg, copy |-> tests[t], stale |-> FALSE,
                        stage |-> "loaded"]]
                /\ UNCHANGED resp

\* PUT /answer/:testId after the load
FinishAnswer(r) ==
    LET req == inflight[r]
        questionNumber == req.arg[1]
        answer == req.arg[2]
    IN  /\ req.stage = "loaded" /\ req.op = "answer"
        /\ UNCHANGED <<now, users, proctoringVars, selectionVars>>
        /\ IF TimeExpired(req.copy, now)
           THEN IF req.stale
                THEN /\ resp' = Response("answer", 500, Failure("answer"))
                     /\ inflight' = Done(r, FALSE)
                     /\ UNCHANGED tests
                ELSE /\ tests' = [tests EXCEPT ![RaceTest] =
                                     SaveCompletion(@, completeTest(req.copy, now))]
                     /\ resp' = Response("answer", 400, "Test time has expired")
                     /\ inflight' = Done(r, TRUE)
           ELSE IF ~HasQuestion(req.copy, questionNumber) \/ req.stale
           THEN /\ resp' = Response("answer", 500, Failure("answer"))
                /\ inflight' = Done(r, FALSE)
                /\ UNCHANGED tests
           ELSE /\ tests' = [tests EXCEPT ![RaceTest] =
                       SaveAnswer(@, PreSave(PreSave(submitAnswer(req.copy, questionNumber, answer))),
                                  FindQuestion(req.copy, questionNumber))]
                /\ resp' = Response("answer", 200, "")
                /\ inflight' = Done(r, FALSE)

\* PUT /flag/:testId after the load: the save sets a path inside an array element
\* and pushes to an array, so it either checks the version or increments it
FinishFlag(r) ==
    LET req == inflight[r]
        questionNumber == req.arg[1]
        flagged == req.arg[2]
    IN  /\ req.stage = "loaded" /\ req.op = "flag"
        /\ UNCHANGED <<now, users, proctoringVars, selectionVars>>
        /\ IF ~HasQuestion(req.copy, questionNumber)
           THEN /\ resp' = Response("flag", 404, "Question not found")
                /\ inflight' = Done(r, FALSE)
                /\ UNCHANGED tests
           ELSE \E checked \in BOOLEAN :
                   IF checked /\ req.stale
                   THEN /\ resp' = Response("flag", 500, Failure("flag"))
                        /\ inflight' = Done(r, FALSE)
                        /\ UNCHANGED tests
                   ELSE LET i == FindQuestion(req.copy, questionNumber)
                            saved == PreSave([req.copy EXCEPT
                                !.questions[i].userResponse.flaggedForReview = flagged])
                        IN  /\ tests' = [tests EXCEPT ![RaceTest] = SaveFlag(@, saved, i)]
                            /\ resp' = Response("flag", 200, "")
                            /\ inflight' = Done(r, ~checked)

\* POST /submit/:testId after the load
FinishSubmit(r) ==
    LET req == inflight[r]
    IN  /\ req.stage = "loaded" /\ req.op = "submit"
        /\ UNCHANGED <<now, proctoringVars, selectionVars>>
        /\ IF req.stale
           THEN /\ resp' = Response("submit", 500, Failure("submit"))
                /\ inflight' = Done(r, FALSE)
                /\ UNCHANGED <<users, tests>>
           ELSE LET completed == completeTest(req.copy, now)
                IN  /\ tests' = [tests EXCEPT ![RaceTest] = SaveCompletion(@, completed)]
                    /\ users' = [users EXCEPT ![RaceUser] = RecordResult(@, completed, now)]
                    /\ resp' = Response("submit", 200, "")
                    /\ inflight' = Done(r, TRUE)

\* POST /proctoring/:testId after the load: the violation is saved
Record(r) ==
    LET req == inflight[r]
        violationType == req.arg[1]
        saved == PreSave(RecordOnTest(req.copy, violationType))
        others == Done(r, TRUE)
    IN  /\ req.stage = "loaded" /\ req.op = "proctoring"
        /\ UNCHANGED <<now, users, proctoringVars, selectionVars>>
        /\ tests' = [tests EXCEPT ![RaceTest] = SaveViolation(@, saved, violationType)]
        /\ IF ExceedsThreshold(saved)
           THEN /\ inflight' = [others EXCEPT ![r] =
                                   [req EXCEPT !.copy = saved, !.stage = "saved"]]
                /\ UNCHANGED resp
           ELSE /\ inflight' = others
                /\ resp' = Response("proctoring", 200, "Violation recorded")

\* POST /proctoring/:testId past the limit: completeTest on the copy
Terminate(r) ==
    LET req == inflight[r]
    IN  /\ req.stage = "saved" /\ req.op = "proctoring"
        /\ UNCHANGED <<now, users, proctoringVars, selectionVars>>
        /\ IF req.stale
           THEN /\ resp' = Response("proctoring", 500, Failure("proctoring"))
                /\ inflight' = Done(r, FALSE)
                /\ UNCHANGED tests
           ELSE /\ tests' = [tests EXCEPT ![RaceTest] =
                                SaveCompletion(@, completeTest(req.copy, now))]
                /\ resp' = Response("proctoring", 200,
                               "Test auto-submitted due to excessive violations")
                /\ inflight' = Done(r, TRUE)

\* the requests the candidate sends
RaceRequests ==
    {<<"answer", <<1, a>>>> : a \in Answers}
    \cup {<<"flag", <<1, TRUE>>>>, <<"submit", <<>>>>, <<"proctoring", <<"tab_switch">>>>}

NextRace ==
    \/ \E r \in DOMAIN inflight, request \in RaceRequests : Load(r, request[1], request[2])
    \/ \E r \in DOMAIN inflight : FinishAnswer(r)
    \/ \E r \in DOMAIN inflight : FinishFlag(r)
    \/ \E r \in DOMAIN inflight : FinishSubmit(r)
    \/ \E r \in DOMAIN inflight : Record(r)
    \/ \E r \in DOMAIN inflight : Terminate(r)

SpecRace == InitRace /\ [][NextRace]_vars

\* the stored score counts the slots as they are stored
ScoreMatchesSlots(test) == test.score = ScoreOf(test)

\* C19: requests in flight at once on one session behave as if serialized: once the
\* session is Evaluated nothing is stored on it any more (no second scoring, no
\* answer or flag after a submit or a forced termination), the stored score block
\* of an Evaluated session matches its stored slot responses, and no update is
\* lost: every violation report that is stored raises the stored count by one.
C19_AsIfSerialized ==
    [][/\ tests[RaceTest].status = "Evaluated" => tests'[RaceTest] = tests[RaceTest]
       /\ tests'[RaceTest].status = "Evaluated" => ScoreMatchesSlots(tests'[RaceTest])
       /\ (inflight' # inflight /\ \E r \in DOMAIN inflight : Record(r))
          => TotalViolations(tests'[RaceTest]) = TotalViolations(tests[RaceTest]) + 1]_vars

\* the stored session is Evaluated with a score that counts no attempted question,
\* while its first slot holds an answer
C19_AnswerMissingFromScore ==
    /\ tests[RaceTest].status = "Evaluated"
    /\ tests[RaceTest].questions[1].userResponse.isAnswered
    /\ tests[RaceTest].score.attemptedQuestions = 0

---------------------------------------------------------------------------
(* POST /start requests of one candidate in flight at once: the route is cut *)
(* between its checks (User.findById, canAttemptTest, the search for an      *)
(* active session) and its writes (test.save, user.save)                     *)

InitCreate ==
    /\ bank = Pool
    /\ picked = NoSelection
    /\ now = 0
    /\ resp = NoResponse
    /\ activeTestSessions = <<>>
    /\ lastViolation = NoViolation
    /\ users = [u \in Users |-> DefaultTestInfo]
    /\ tests = <<>>
    /\ inflight = [r \in 1..MaxRequests |-> Idle]

\* POST /start up to the search for an active session
CheckStart(r, u) ==
    LET user == users[u]
        check == canAttemptTest(user, now)
        activeTest == ActiveTest(u)
    IN  /\ inflight[r].stage = "idle"
        /\ UNCHANGED <<now, users, tests, proctoringVars, selectionVars>>
        /\ IF ~check.canAttempt
           THEN resp' = Refused("start", check) /\ UNCHANGED inflight
           ELSE IF activeTest # NoTest
           THEN /\ resp' = Response("start", 400,
                    "You have an active test session. Please complete it first.")
                /\ UNCHANGED inflight
           ELSE /\ inflight' = [inflight EXCEPT ![r] =
                       [op |-> "start", arg |-> <<u>>, copy |-> user, stale |-> FALSE,
                        stage |-> "checked"]]
                /\ UNCHANGED resp

\* POST /start from the selection of the questions on: the session is stored with
\* the attempt number of the copy, and the copy's counter is written back
CreateStart(r) ==
    LET req == inflight[r]
        u == req.arg[1]
        user == req.copy
    IN  /\ req.stage = "checked" /\ req.op = "start"
        /\ UNCHANGED <<now, proctoringVars, selectionVars>>
        /\ inflight' = Done(r, FALSE)
        /\ \E questions \in getRandomQuestions(bank, StartCriteria(TestConfig.totalQuestions)) :
              IF Len(questions) < TestConfig.totalQuestions
              THEN /\ resp' = Response("start", 500,
                       "Insufficient questions available. Please contact support.")
                   /\ UNCHANGED <<users, tests>>
              ELSE /\ tests' = Append(tests,
                          PreSave(NewTest(u, TestConfig, questions,
                                          user.totalAttempts, now)))
                   /\ users' = [users EXCEPT
                          ![u].totalAttempts = user.totalAttempts + 1,
                          ![u].lastAttemptDate = now]
                   /\ resp' = Response("start", 201, "")

NextCreate ==
    \/ Tick
    \/ \E r \in DOMAIN inflight, u \in DOMAIN users : CheckStart(r, u)
    \/ \E r \in DOMAIN inflight : CreateStart(r)
    \/ \E u \in DOMAIN users, testId \in TestIds : Begin(u, testId)
    \/ \E u \in DOMAIN users, testId \in TestIds : Submit(u, testId)

SpecCreate == InitCreate /\ [][NextCreate]_vars

\* the sessions of a candidate that are Scheduled or In Progress
ActiveSessions(u) ==
    {t \in 1..Len(tests) :
        tests[t].user = u /\ tests[t].status \in {"Scheduled", "In Progress"}}

\* C20: in every reachable state a candidate has at most one session that is
\* Scheduled or In Progress, and no two sessions of a candidate carry the same
\* attempt number, also when create requests of the candidate are processed
\* concurrently.
C20_OneActiveSession ==
    \A u \in DOMAIN users :
        /\ Cardinality(ActiveSessions(u)) <= 1
        /\ \A s, t \in 1..Len(tests) :
              (s # t /\ tests[s].user = u /\ tests[t].user = u)
              => tests[s].attemptNumber # tests[t].attemptNumber

\* two sessions of the candidate are Scheduled, both as attempt 1, and the
\* candidate's record counts a single attempt
C20_TwoActiveSessions ==
    \E s, t \in 1..Len(tests) :
        /\ s # t
        /\ tests[s].user = tests[t].user
        /\ tests[s].status = "Scheduled" /\ tests[t].status = "Scheduled"
        /\ tests[s].attemptNumber = 1 /\ tests[t].attemptNumber = 1
        /\ users[tests[s].user].totalAttempts = 1

---------------------------------------------------------------------------
(* Properties of the submit, checked under Spec *)

\* the number of slots that hold an answer
AnsweredCount(test) ==
    Cardinality({i \in 1..Len(test.questions) : test.questions[i].userResponse.isAnswered})

\* C21: a submit on a session In Progress sets the end and submitted timestamps,
\* stores the score block computed from the slots as they are and leaves the session
\* Evaluated; with no answered question it is accepted all the same and gives
\* attemptedQuestions 0, netScore 0, percentage 0 and isPassed false, for every
\* positive passing percentage.
C21_SubmitEvaluates ==
    [][\A u \in DOMAIN users, t \in 1..Len(tests) :
          (/\ Handled("submit")
           /\ tests[t].user = u
           /\ tests[t].status = "In Progress"
           /\ canAttemptTest(users[u], now).canAttempt
           /\ Submit(u, t))
          => LET stored == tests'[t]
             IN  /\ resp'.code = 200
                 /\ stored.status = "Evaluated"
                 /\ stored.endTime = now /\ stored.submittedAt = now
                 /\ stored.questions = tests[t].questions
                 /\ stored.score = ScoreOf(tests[t])
                 /\ stored.score.totalQuestions = Len(tests[t].questions)
                 /\ stored.score.attemptedQuestions = AnsweredCount(tests[t])
                 /\ AnsweredCount(tests[t]) = 0
                    => /\ stored.score.netScore = 0
                       /\ stored.score.percentage = 0
                       /\ ~stored.isPassed
                       /\ \A passing \in 1..100 :
                             ~IsPassed(stored.score.percentage, passing)]_vars

\* a session was submitted with no answer and is stored Evaluated with a score of 0
C21_EmptySubmitAccepted ==
    /\ resp = Response("submit", 200, "")
    /\ \E t \in 1..Len(tests) :
          /\ tests[t].status = "Evaluated"
          /\ tests[t].submittedAt = now
          /\ AnsweredCount(tests[t]) = 0
          /\ tests[t].score.totalQuestions = totalQuestions
          /\ tests[t].score.attemptedQuestions = 0
          /\ tests[t].score.percentage = 0
          /\ ~tests[t].isPassed

---------------------------------------------------------------------------
(* Properties of the recorded answers, checked under Spec *)

\* the index of the slot with the given number
SlotOf(test, questionNumber) ==
    CHOOSE i \in 1..Len(test.questions) : test.questions[i].questionNumber = questionNumber

\* C22: recording an answer is idempotent per question. Answering a slot again
\* overwrites its response: the slot holds the last answer given, the number of
\* slots is unchanged, the slot is counted once among the answered ones, every
\* other slot is unchanged, the stored state does not depend on the answers given
\* before, and recording the same answer twice gives what recording it once gives.
C22_AnswerOverwrites ==
    [][\A u \in DOMAIN users, t \in 1..Len(tests), n \in QuestionNumbers, a \in Answers :
          (/\ Handled("answer")
           /\ resp'.code = 200
           /\ tests[t].status = "In Progress"
           /\ Answer(u, t, n, a))
          => LET before == tests[t]
                 after == tests'[t]
                 i == SlotOf(before, n)
                 was == before.questions[i].userResponse.isAnswered
                 blank == [before EXCEPT
                              !.questions[i].userResponse.selectedAnswer = "",
                              !.questions[i].userResponse.selectedOption = "",
                              !.questions[i].userResponse.isAnswered = FALSE,
                              !.questions[i].isCorrect = "null",
                              !.questions[i].pointsEarned = 0]
             IN  /\ Len(after.questions) = Len(before.questions)
                 /\ after.questions[i].userResponse.selectedAnswer = a
                 /\ after.questions[i].userResponse.isAnswered
                 /\ \A j \in 1..Len(before.questions) :
                       j # i => after.questions[j] = before.questions[j]
                 /\ AnsweredCount(after) = AnsweredCount(before) + (IF was THEN 0 ELSE 1)
                 /\ after = submitAnswer(blank, n, a)
                 /\ submitAnswer(after, n, a) = after
                 /\ \A b \in Answers :
                       submitAnswer(after, n, b) = submitAnswer(before, n, b)]_vars

\* both slots of a session in progress hold an answer, the first one the answer
\* that is wrong for it, and the last request was an answer that was stored
C22_SlotsAnswered ==
    /\ resp = Response("answer", 200, "")
    /\ \E t \in 1..Len(tests) :
          /\ tests[t].status = "In Progress"
          /\ AnsweredCount(tests[t]) = Len(tests[t].questions)
          /\ tests[t].questions[1].isCorrect = "false"

---------------------------------------------------------------------------
(* Properties of the breakdowns, checked under SpecScore *)

\* the sum of a field over the entries of a breakdown
BreakdownSum(breakdown, field) ==
    SeqSum([k \in 1..Len(breakdown) |-> breakdown[k][field]])

\* the net points of the slots of a group under the rule of the overall score
GroupNet(test, InGroup(_)) ==
    SeqSum([i \in 1..Len(test.questions) |->
               IF InGroup(test.questions[i])
               THEN Contribution(test.questions[i], test.testConfig.negativeMarking)
               ELSE 0])

\* the entries of a breakdown carry the net points of their groups, and the
\* breakdown adds up to the overall score
BreakdownAgrees(test, breakdown, key) ==
    /\ \A k \in 1..Len(breakdown) :
          breakdown[k].points =
              GroupNet(test, LAMBDA q : q[key] = breakdown[k][key])
    /\ BreakdownSum(breakdown, "points") = test.score.netScore
    /\ BreakdownSum(breakdown, "totalQuestions") = test.score.totalQuestions
    /\ BreakdownSum(breakdown, "correctAnswers") = test.score.correctAnswers

\* C23: the category and difficulty breakdowns apply the rule of the overall score,
\* for both values of negativeMarking: a group's net points are +points for each
\* correct slot and -negativePoints for each answered incorrect slot only when
\* negativeMarking is on, so the groups' net points add up to netScore and their
\* question and correct counts to totalQuestions and correctAnswers.
C23_BreakdownsFollowRule ==
    \A t \in Scored :
        /\ BreakdownAgrees(tests[t], tests[t].score.categoryWiseScore, "category")
        /\ BreakdownAgrees(tests[t], tests[t].score.difficultyWiseScore, "difficulty")

\* a session scored without negative marking holds a wrong answer: its net score
\* is not negative, and its category breakdown adds up to less
C23_BreakdownCharges ==
    \E t \in Scored :
        /\ ~tests[t].testConfig.negativeMarking
        /\ AnsweredSlots(tests[t], FALSE) # {}
        /\ tests[t].score.netScore >= 0
        /\ BreakdownSum(tests[t].score.categoryWiseScore, "points") < tests[t].score.netScore

---------------------------------------------------------------------------
(* Properties of the cooldown, checked under SpecCreate *)

\* the times since the last attempt the cooldown is probed with, in ms
SinceSamples ==
    {0, 1, MsPerHour - 1, MsPerHour, MsPerHour + 1, TickMs,
     CooldownHours * MsPerHour - MsPerHour, CooldownHours * MsPerHour - MsPerHour + 1,
     CooldownHours * MsPerHour - 1, CooldownHours * MsPerHour,
     CooldownHours * MsPerHour + 1, 2 * CooldownHours * MsPerHour}

\* ceil(24 - hoursSinceLastAttempt): the least number of whole hours that reaches
\* the end of the cooldown
HoursLeft(since) ==
    CHOOSE h \in 0..CooldownHours :
        /\ h * MsPerHour >= CooldownHours * MsPerHour - since
        /\ (h - 1) * MsPerHour < CooldownHours * MsPerHour - since

\* a candidate with one earlier attempt, made since ms ago, asks at the given date
AfterAttempt(since, date) ==
    [DefaultTestInfo EXCEPT !.totalAttempts = 1, !.lastAttemptDate = date - since]

\* C24: a create request of a candidate with a prior attempt is rejected while fewer
\* than 24 hours have passed since lastAttemptDate, with a reported wait of
\* ceil(24 - hoursSinceLastAttempt) hours, always between 1 and 24, and is not
\* rejected for cooldown once 24 hours have passed; hence two sessions of one
\* candidate are never created less than 24 hours apart.
C24_CooldownSpacing ==
    [][/\ \A since \in SinceSamples :
             LET date == 2 * CooldownHours * MsPerHour
                 check == canAttemptTest(AfterAttempt(since, date), date)
             IN  IF since < CooldownHours * MsPerHour
                 THEN /\ ~check.canAttempt
                      /\ check.reason = "Please wait"
                      /\ check.hours = HoursLeft(since)
                      /\ check.hours >= 1 /\ check.hours <= CooldownHours
                 ELSE check.canAttempt
       /\ \A u \in DOMAIN users :
             (resp' # resp /\ resp'.op = "start" /\ CooldownNotElapsed(u)
              /\ ~TemporarilyBlocked(u) /\ ~AlreadyQualified(u) /\ ~MaxAttemptsReached(u))
             => resp'.code = 403 /\ resp'.error = "Please wait" /\ tests' = tests
       /\ Len(tests') = Len(tests) + 1
          => LET u == tests'[Len(tests')].user
             IN  \/ users[u].lastAttemptDate = NoDate
                 \/ now - users[u].lastAttemptDate >= CooldownHours * MsPerHour]_vars

\* two sessions of the candidate were created at the same moment
C24_CreatedTogether ==
    \E s, t \in 1..Len(tests) :
        /\ s < t
        /\ tests[s].user = tests[t].user
        /\ tests[s].status = "Scheduled" /\ tests[t].status = "Scheduled"
        /\ tests[s].startTime = tests[t].startTime
        /\ users[tests[s].user].lastAttemptDate = tests[t].startTime

---------------------------------------------------------------------------
(* Properties of the violation log, checked under SpecProctor *)

Severities == {"critical", "major", "minor"}

\* the log warrants termination: two critical or violationThreshold major events
Warranted(log) ==
    CountOf(log, "critical") >= 2 \/ CountOf(log, "major") >= violationThreshold

\* C25: recordViolation on a tracked session appends exactly one event to that
\* session's log and changes nothing else: earlier events are neither modified nor
\* removed, the logs of other sessions are unchanged, no test session changes its
\* status, and the critical, major and minor counts of the session never decrease,
\* so once shouldTerminate is true it is true for every later report.
C25_LogAppendOnly ==
    [][\A testId \in DOMAIN activeTestSessions :
          (/\ lastViolation' # lastViolation \/ activeTestSessions' # activeTestSessions
           /\ \E violationType \in ReportedTypes : recordViolation(testId, violationType))
          => LET before == activeTestSessions[testId].violations
                 after == activeTestSessions'[testId].violations
             IN  /\ Len(after) = Len(before) + 1
                 /\ SubSeq(after, 1, Len(before)) = before
                 /\ after[Len(after)] = lastViolation'.violation
                 /\ DOMAIN activeTestSessions' = DOMAIN activeTestSessions
                 /\ \A other \in DOMAIN activeTestSessions \ {testId} :
                       activeTestSessions'[other] = activeTestSessions[other]
                 /\ activeTestSessions'[testId].isActive = activeTestSessions[testId].isActive
                 /\ tests' = tests /\ users' = users
                 /\ \A severity \in Severities :
                       CountOf(after, severity) >= CountOf(before, severity)
                 /\ Warranted(before) => lastViolation'.shouldTerminate]_vars

\* a report was recorded on a session whose log already warranted termination,
\* while another session is tracked with a log of its own
C25_ReportAfterTermination ==
    /\ lastViolation.success
    /\ lastViolation.shouldTerminate
    /\ lastViolation.testId \in DOMAIN activeTestSessions
    /\ LET log == activeTestSessions[lastViolation.testId].violations
       IN  /\ Len(log) = lastViolation.totalViolations
           /\ Len(log) >= 2
           /\ Warranted(SubSeq(log, 1, Len(log) - 1))
    /\ \E other \in DOMAIN activeTestSessions :
          other # lastViolation.testId /\ activeTestSessions[other].violations # <<>>

---------------------------------------------------------------------------
(* Faults during the evaluation: completeTest throws in calculateScore or in  *)
(* calculateAnalytics, before its save, and the route's catch block answers   *)

\* POST /submit/:testId when completeTest throws
SubmitFault(u, testId) ==
    LET t == FindTest(testId, u)
    IN  /\ authenticateTest(u).canAttempt
        /\ t # NoTest
        /\ IsInProgress(tests[t])
        /\ resp' = Response("submit", 500, Failure("submit"))
        /\ UNCHANGED <<now, users, tests, proctoringVars, selectionVars, inflight>>

\* PUT /answer/:testId past the time limit when completeTest throws
AnswerFault(u, testId) ==
    LET t == FindTest(testId, u)
    IN  /\ authenticateTest(u).canAttempt
        /\ t # NoTest
        /\ IsInProgress(tests[t])
        /\ TimeExpired(tests[t], now)
        /\ resp' = Response("answer", 500, Failure("answer"))
        /\ UNCHANGED <<now, users, tests, proctoringVars, selectionVars, inflight>>

\* GET /status/:testId with no time remaining when completeTest throws
StatusFault(u, testId) ==
    LET t == FindTest(testId, u)
    IN  /\ authenticateTest(u).canAttempt
        /\ t # NoTest
        /\ IsInProgress(tests[t])
        /\ NoTimeRemaining(tests[t], now)
        /\ resp' = Response("status", 500, "Failed to get test status")
        /\ UNCHANGED <<now, users, tests, proctoringVars, selectionVars, inflight>>

\* POST /proctoring/:testId at the limit when completeTest throws: the violation
\* has been saved before
ProctoringFault(u, testId, violationType) ==
    LET t == FindTest(testId, u)
        saved == PreSave(RecordOnTest(tests[t], violationType))
    IN  /\ authenticateTest(u).canAttempt
        /\ t # NoTest
        /\ IsInProgress(tests[t])
        /\ TotalViolations(tests[t]) < warningThreshold + MaxExcess
        /\ ExceedsThreshold(saved)
        /\ tests' = [tests EXCEPT ![t] = saved]
        /\ resp' = Response("proctoring", 500, Failure("proctoring"))
        /\ UNCHANGED <<now, users, proctoringVars, selectionVars, inflight>>

NextFault ==
    \/ Next
    \/ \E u \in DOMAIN users, testId \in TestIds : SubmitFault(u, testId)
    \/ \E u \in DOMAIN users, testId \in TestIds : AnswerFault(u, testId)
    \/ \E u \in DOMAIN users, testId \in TestIds : StatusFault(u, testId)
    \/ \E u \in DOMAIN users, testId \in TestIds, v \in ViolationTypes :
           ProctoringFault(u, testId, v)

SpecFault == Init /\ [][NextFault]_vars

\* the stored session is evaluated in full or not at all
WhollyEvaluated(test) ==
    /\ test.status \in {"Scheduled", "In Progress", "Evaluated"}
    /\ test.status = "Evaluated"
       => /\ test.endTime # NoDate /\ test.submittedAt # NoDate
          /\ test.score.totalQuestions = Len(test.questions)
          /\ test.score.attemptedQuestions + test.score.unansweredQuestions
                = Len(test.questions)
          /\ test.score.grade = LadderGrade(test.score.percentage)
          /\ test.isPassed = (test.score.percentage >= test.testConfig.passingPercentage)
    /\ test.status # "Evaluated"
       => /\ test.score = DefaultScore
          /\ ~test.isPassed
          /\ test.endTime = NoDate /\ test.submittedAt = NoDate

\* the step is the answer of a catch block
Faulted == now' = now /\ resp' # resp /\ resp'.code = 500

\* C26, as stated: no partially evaluated session is ever stored -- a session is
\* Evaluated with a complete score block and a consistent isPassed or not evaluated
\* with the default score block, and Completed is never stored -- and a fault during
\* scoring or analytics leaves the stored session exactly as it was before the
\* request, still In Progress.
C26_FaultLeavesSession ==
    [][/\ \A t \in 1..Len(tests') : WhollyEvaluated(tests'[t])
       /\ Faulted => tests' = tests]_vars

\* C26, with what a violation report stores before it evaluates: no partially
\* evaluated session is ever stored, Completed is never stored, and a fault during
\* scoring or analytics leaves the status, the timestamps, the score block, isPassed
\* and every slot of the stored session as they were before the request, still In
\* Progress when it was; only the violation count of a violation report is kept.
C26_FaultLeavesEvaluation ==
    [][/\ \A t \in 1..Len(tests') : WhollyEvaluated(tests'[t])
       /\ Faulted
          => /\ Len(tests') = Len(tests)
             /\ users' = users
             /\ \A t \in 1..Len(tests) :
                   /\ [tests'[t] EXCEPT !.proctoring = tests[t].proctoring] = tests[t]
                   /\ tests'[t].proctoring # tests[t].proctoring
                      => /\ resp'.op = "proctoring"
                         /\ tests[t].status = "In Progress"
                         /\ TotalViolations(tests'[t]) = TotalViolations(tests[t]) + 1]_vars

\* a violation report at the limit failed in its evaluation: the session is still
\* In Progress with the default score block, and holds the violation
C26_ViolationKeptAfterFault ==
    /\ resp = Response("proctoring", 500, "Failed to record violation")
    /\ \E t \in 1..Len(tests) :
          /\ tests[t].status = "In Progress"
          /\ tests[t].score = DefaultScore
          /\ TotalViolations(tests[t]) >= warningThreshold

---------------------------------------------------------------------------
(* Properties of the writes to the attempt record, checked under Spec *)

\* the fields of the attempt record
AttemptRecord(testInfo) ==
    <<testInfo.totalAttempts, testInfo.lastAttemptDate, testInfo.bestScore,
      testInfo.hasQualified>>

\* C27: the candidate's attempt record (totalAttempts, lastAttemptDate, bestScore,
\* hasQualified) is changed only by the completion of a session: creating a
\* session, beginning it, answering, flagging and reporting violations leave it
\* unchanged, so a session that is created but never completed consumes no attempt
\* and starts no cooldown.
C27_RecordChangedByCompletion ==
    [][\A u \in DOMAIN users :
          AttemptRecord(users'[u]) # AttemptRecord(users[u])
          => \E t \in SessionsOf(u) : BecomesEvaluated(t)]_vars

\* a session was created and never begun: the candidate's record counts an attempt
\* and carries the date the cooldown is measured from
C27_CreationConsumesAttempt ==
    \E u \in DOMAIN users :
        /\ Cardinality(SessionsOf(u)) = 1
        /\ \A t \in SessionsOf(u) :
              tests[t].status = "Scheduled" /\ tests[t].attemptNumber = 1
        /\ users[u].totalAttempts = 1
        /\ users[u].lastAttemptDate # NoDate
        /\ InCooldown(users[u], now)

---------------------------------------------------------------------------
(* Properties of the token check on the session routes, checked under Spec *)

\* the step answers a request of u on session t
OwnRequest(u, t) ==
    \/ Handled("begin") /\ Begin(u, t)
    \/ Handled("answer") /\ \E n \in QuestionNumbers, a \in Answers : Answer(u, t, n, a)
    \/ Handled("flag") /\ \E n \in QuestionNumbers, f \in BOOLEAN : Flag(u, t, n, f)
    \/ Handled("proctoring") /\ \E v \in ViolationTypes : Proctoring(u, t, v)
    \/ Handled("status") /\ Status(u, t)
    \/ Handled("submit") /\ Submit(u, t)

\* C28: a session that was created can be taken by its owner: the owner's begin,
\* answer, flag, violation, status and submit requests on it are never rejected by
\* the eligibility check (attempt cap or 24-hour cooldown) that creating this very
\* session has triggered, for every attempt number from 1 to maxAttempts.
C28_OwnerCanTakeSession ==
    [][\A u \in DOMAIN users, t \in 1..Len(tests) :
          (/\ tests[t].user = u
           /\ tests[t].status \in {"Scheduled", "In Progress"}
           /\ resp'.code = 403
           /\ OwnRequest(u, t))
          => resp'.error \notin {"Please wait", "Maximum attempts reached"}]_vars

\* the session of the last attempt is still Scheduled a day after its creation, and
\* its owner's begin request was refused for the attempts the session itself counts
C28_LastAttemptLocked ==
    \E t \in 1..Len(tests) :
        /\ resp = Response("begin", 403, "Maximum attempts reached")
        /\ tests[t].status = "Scheduled"
        /\ tests[t].attemptNumber = maxAttempts
        /\ users[tests[t].user].totalAttempts = maxAttempts
        /\ now - users[tests[t].user].lastAttemptDate >= CooldownHours * MsPerHour

---------------------------------------------------------------------------
(* Properties of the stored duration, checked under Spec *)

\* C29: after a session is completed by any path, its stored actualDurationMinutes
\* equals round((endTime - startTime) / 60000), startTime being the time of the
\* begin action.
C29_DurationStored ==
    \A t \in 1..Len(tests) :
        tests[t].status = "Evaluated"
        => tests[t].actualDurationMinutes =
               RoundDiv(tests[t].endTime - tests[t].startTime, MsPerMinute)

\* an evaluated session that ran for at least a minute and stores a duration of 0
C29_DurationLeftAtZero ==
    \E t \in 1..Len(tests) :
        /\ tests[t].status = "Evaluated"
        /\ tests[t].startTime # NoDate
        /\ tests[t].endTime - tests[t].startTime >= MsPerMinute
        /\ tests[t].actualDurationMinutes = 0

---------------------------------------------------------------------------
(* Properties of the stored score block, checked under SpecRace *)

\* the slots' own pointsEarned values, added up
SlotPoints(test) ==
    SeqSum([i \in 1..Len(test.questions) |-> test.questions[i].pointsEarned])

ScoreConsistent(test) ==
    /\ test.score.correctAnswers + test.score.wrongAnswers = test.score.attemptedQuestions
    /\ test.score.attemptedQuestions + test.score.unansweredQuestions
           = test.score.totalQuestions
    /\ test.score.totalQuestions = Len(test.questions)
    /\ test.score.netScore = test.score.pointsEarned - test.score.negativePoints
    /\ test.score.netScore = SlotPoints(test)

\* C30: every stored score block (the block of every evaluated session) is
\* internally consistent: correctAnswers + wrongAnswers = attemptedQuestions,
\* attemptedQuestions + unansweredQuestions = totalQuestions = number of slots,
\* netScore = pointsEarned - negativePoints, and netScore equals the sum of the
\* slots' own pointsEarned values.
C30_ScoreBlockConsistent ==
    \A t \in 1..Len(tests) :
        tests[t].status = "Evaluated" => ScoreConsistent(tests[t])

\* an evaluated session whose stored netScore is not the sum of its stored slots'
\* pointsEarned
C30_NetScoreMissesSlot ==
    \E t \in 1..Len(tests) :
        /\ tests[t].status = "Evaluated"
        /\ tests[t].score.netScore = 0
        /\ SlotPoints(tests[t]) # 0

===========================================================================
